---- MODULE Spec2Model ----
(***************************************************************************)
(* A model of yapigen, the OpenAPI to TypeScript generator: the schema     *)
(* compilers of src/src/json-schema.ts (type, parser, serializer), the     *)
(* JSON pointer resolver, content type matching and the operation          *)
(* formatters of src/src/formatters/operation.ts.                          *)
(*                                                                         *)
(* Generated code is modelled by its syntax tree (records with an `op`     *)
(* field) instead of its text; a JSON object is a function from its keys,  *)
(* a JSON array a sequence, `'k' in o` is "k" \in DOMAIN o.                *)
(***************************************************************************)
EXTENDS Integers, Sequences, FiniteSets, TLC

VARIABLES
  document,     \* the OpenAPI document the generator was started on
  \* the schema compilers
  schema,       \* the schema handed to the schema compilers
  phase,        \* how far the run has come
  ts_type,      \* result of schema_to_typescript
  parser,       \* result of schema_to_parser
  serializer,   \* result of schema_to_serializer
  wire,         \* a value as it travels over the network
  parsed,       \* the generated parser applied to it
  emitted,      \* the generated serializer applied to the parsed value
  \* the reference resolver
  ptr_doc,        \* resolveReference: doc
  ptr_ref,        \* resolve: object
  ptr_isObject,   \* what the imported isObject accepts besides plain objects
  ptr_pc,         \* position inside resolve
  ptr_components, \* resolveReference: the components still to walk
  ptr_object,     \* resolveReference: object
  ptr_raw,        \* resolveReference: component_ of the last iteration
  ptr_component,  \* resolveReference: component of the last iteration
  ptr_outcome,    \* what resolve returned or threw
  \* request bodies and content types
  request_body,   \* the RequestBody of an operation
  clause,         \* content_type_matches: clause
  target,         \* content_type_matches: target
  matched,        \* content_type_matches: its result
  client_body,    \* result of handle_request_body
  server_body,    \* result of handle_request_body_payload
  warnings,       \* what console.warn has printed
  \* responses of an operation
  operation,          \* the Operation being formatted
  default_security,   \* the security of the document
  expected_return_type, \* format_operation_api_call: expected_return_type
  response_cases,     \* format_operation_api_call: the cases of the switch
  request_call,       \* format_operation_api_call: the function that is called
  handler_type,       \* format_operation_as_server_endpoint_handler_type
  \* URI paths
  uri_path,           \* parse_uri_path: path
  uri_replacement,    \* parse_uri_path: replacement
  uri_result,         \* parse_uri_path: what it returned
  \* parameters
  parameter,          \* a Parameter of an operation
  unpack_expression,  \* result of unpack_parameter_expression
  pack_expression,    \* result of pack_parameter_expression
  raw_value,          \* the raw value of the parameter in a request
  unpacked,           \* what the generated expression made of it
  parameter_warnings, \* what console.warn has printed
  \* the generators over the path items
  paths,              \* document.paths: its entries, in order
  api_calls,          \* format_path_item_as_api_call over the paths
  handler_types,      \* format_path_item_as_server_handler_types over them
  endpoint_handlers,  \* format_path_item_as_server_endpoint_handlers
  router_setup,       \* format_path_item_setup_server_router
  \* a run of the generator
  configuration,      \* main: what parse_command_line returned
  main_pc,            \* main: the statement that comes next
  files,              \* the files written so far, in order
  failed_with,        \* the files there were when a content failed
  exit,               \* what main returned or rejected with
  \* symbol names
  gensym_seed,        \* the seed of the generators
  hints,              \* the hints a run asks names for, in order
  random,             \* the state of each generator made by sfc32
  numbers,            \* what each generator has returned
  names,              \* what the gensym over each generator has minted
  \* optional imports of an output file
  import_input,       \* the operation the file is generated for
  symbols,            \* the CountedSymbols of the file, once its content is built
  file_content,       \* the content of the file, without its imports
  imports,            \* the optional modules the file imports
  \* the command line
  argv,               \* process.argv from index 2 on
  argv_i,             \* parse_command_line: the argument the loop is at
  file_format,        \* the format for the next --config
  cli_configuration,  \* the configuration built so far
  sourced_files,      \* the configuration files loaded so far
  last_writer,        \* history: per option, what the latest argument gave it
  cli_result,         \* what parse_command_line returned or rejected with
  \* string literals
  ts_s,               \* the string that ts_string is given
  ts_delim,           \* the delimiter that ts_string is given
  ts_literal,         \* what ts_string returned
  \* the parts of an allOf
  merge_parts,        \* the object schemas that merge_schemas is given
  merged,             \* what merge_schemas returned
  \* the source map of a file
  map_data,           \* the content of the file
  map_lines,          \* find_source_map_url: data.split('\n')
  line_offset,        \* find_source_map_url: the line it looks at, from the end
  map_iterations,     \* history: the iterations of the loop so far
  map_url,            \* what find_source_map_url returned
  \* the names of the types
  declared_names,     \* per entry of components.schemas, the type declared
  referred_name,      \* the name a reference to an entry compiles to
  \* a generated endpoint handler serving a request
  endpoint,           \* the operation the handler was generated for
  endpoint_pc,        \* the statement of the handler that comes next
  raw_body,           \* the handler's raw_body, once it is read
  sent,               \* the statuses of the responses sent, in order
  called              \* whether the user's callback has been invoked

schemaVars == <<schema, phase, ts_type, parser, serializer,
                wire, parsed, emitted>>
pointerVars == <<ptr_doc, ptr_ref, ptr_isObject, ptr_pc, ptr_components,
                 ptr_object, ptr_raw, ptr_component, ptr_outcome>>
contentVars == <<request_body, clause, target, matched, client_body,
                 server_body, warnings>>
operationVars == <<operation, default_security, expected_return_type,
                   response_cases, request_call, handler_type>>
pathVars == <<uri_path, uri_replacement, uri_result>>
parameterVars == <<parameter, unpack_expression, pack_expression, raw_value,
                   unpacked, parameter_warnings>>
routerVars == <<paths, api_calls, handler_types, endpoint_handlers,
                router_setup>>
mainVars == <<configuration, main_pc, files, failed_with, exit>>
gensymVars == <<gensym_seed, hints, random, numbers, names>>
lateVars == <<routerVars, mainVars, gensymVars>>
importVars == <<import_input, symbols, file_content, imports>>
commandVars == <<argv, argv_i, file_format, cli_configuration, sourced_files,
                 last_writer, cli_result>>
stringVars == <<ts_s, ts_delim, ts_literal>>
mergeVars == <<merge_parts, merged>>
sourceMapVars == <<map_data, map_lines, line_offset, map_iterations, map_url>>
nameVars == <<declared_names, referred_name>>
endpointVars == <<endpoint, endpoint_pc, raw_body, sent, called>>
afterName == <<endpointVars>>
afterSourceMap == <<nameVars, afterName>>
afterMerge == <<sourceMapVars, afterSourceMap>>
afterString == <<mergeVars, afterMerge>>
afterCommand == <<stringVars, afterString>>
afterImport == <<commandVars, afterCommand>>
moreVars == <<importVars, afterImport>>
otherVars == <<pathVars, parameterVars, lateVars, moreVars>>
vars == <<document, schemaVars, pointerVars, contentVars, operationVars,
          otherVars>>

None == [none |-> TRUE]

\* the parts of the generator that a run does not use stay as they are
IdleSchema ==
  /\ schema = None /\ phase = None /\ ts_type = None /\ parser = None
  /\ serializer = None /\ wire = None /\ parsed = None /\ emitted = None

IdlePointer ==
  /\ ptr_doc = None /\ ptr_ref = None /\ ptr_isObject = None /\ ptr_pc = None
  /\ ptr_components = None /\ ptr_object = None /\ ptr_raw = None
  /\ ptr_component = None /\ ptr_outcome = None

IdleContent ==
  /\ request_body = None /\ clause = None /\ target = None /\ matched = None
  /\ client_body = None /\ server_body = None /\ warnings = None

IdleOperation ==
  /\ operation = None /\ default_security = None
  /\ expected_return_type = None /\ response_cases = None
  /\ request_call = None /\ handler_type = None

IdlePath == uri_path = None /\ uri_replacement = None /\ uri_result = None

IdleParameter ==
  /\ parameter = None /\ unpack_expression = None /\ pack_expression = None
  /\ raw_value = None /\ unpacked = None /\ parameter_warnings = None

IdleRouter ==
  /\ paths = None /\ api_calls = None /\ handler_types = None
  /\ endpoint_handlers = None /\ router_setup = None

IdleMain ==
  /\ configuration = None /\ main_pc = None /\ files = None
  /\ failed_with = None /\ exit = None

IdleGensym ==
  /\ gensym_seed = None /\ hints = None /\ random = None /\ numbers = None
  /\ names = None

IdleLate == IdleRouter /\ IdleMain /\ IdleGensym

IdleImport ==
  /\ import_input = None /\ symbols = None /\ file_content = None
  /\ imports = None

IdleCommand ==
  /\ argv = None /\ argv_i = None /\ file_format = None
  /\ cli_configuration = None /\ sourced_files = None /\ last_writer = None
  /\ cli_result = None

IdleString == ts_s = None /\ ts_delim = None /\ ts_literal = None

IdleMerge == merge_parts = None /\ merged = None

IdleSourceMap ==
  /\ map_data = None /\ map_lines = None /\ line_offset = None
  /\ map_iterations = None /\ map_url = None

IdleName == declared_names = None /\ referred_name = None

IdleEndpoint ==
  /\ endpoint = None /\ endpoint_pc = None /\ raw_body = None /\ sent = None
  /\ called = None

IdleAfterName == IdleEndpoint

IdleAfterSourceMap == IdleName /\ IdleAfterName

IdleAfterMerge == IdleSourceMap /\ IdleAfterSourceMap

IdleAfterString == IdleMerge /\ IdleAfterMerge

IdleAfterCommand == IdleString /\ IdleAfterString

IdleAfterImport == IdleCommand /\ IdleAfterCommand

IdleMore == IdleImport /\ IdleAfterImport

IdleOther == IdlePath /\ IdleParameter /\ IdleLate /\ IdleMore

----------------------------------------------------------------------------
(* Bounds of the model *)

\* Depth of the call stack at which the JavaScript engine gives up with a
\* RangeError (Maximum call stack size exceeded).
MaxStack == 8

\* Nesting depth of the inline schemas that are enumerated.
MaxDepth == 2

----------------------------------------------------------------------------
(* Generated code *)

Var(name) == [op |-> "var", name |-> name]
\* `(${x}[${safe_key}]!)`
Index(x, key) == [op |-> "index", of |-> x, key |-> key]
\* what a FormatSpec's parse or serialize returns for the expression x
Call(fn, x) == [op |-> "call", fn |-> fn, arg |-> x]
\* `${x}.map((${loop_var}: any) => ${c})`
Map(x, loop_var, c) == [op |-> "map", of |-> x, var |-> loop_var, body |-> c]
\* `({ ...${x}, ${modified} })`
Spread(x, modified) == [op |-> "spread", of |-> x, modified |-> modified]
\* `(()=>{throw new Error})()`
ThrowExpr == [op |-> "throwexpr"]
\* the `false` of inner: the field needs no transformation
False == [op |-> "false"]
\* an exception thrown by the generator itself
Throw(error) == [op |-> "throw", error |-> error]
IsThrow(r) == "op" \in DOMAIN r /\ r.op = "throw"

\* The first exception among the results of a list of calls, if any.
FirstThrow(rs) ==
  LET bad == {i \in DOMAIN rs : IsThrow(rs[i])}
  IN  rs[CHOOSE i \in bad : \A j \in bad : i <= j]

AnyThrow(rs) == \E i \in DOMAIN rs : IsThrow(rs[i])

----------------------------------------------------------------------------
(* The string format registry *)

\* A parse or serialize function of the registry applied to the expression
\* x: the built-in `string` spec returns x itself.
Apply(fn, x) == IF fn = "x" THEN x ELSE Call(fn, x)

string == [parse |-> "x", serialize |-> "x", type |-> "string"]

DEFAULT_STRING_FORMATS ==
  [uri |-> [parse |-> "(new URL(x))", serialize |-> "x.href", type |-> "URL"],
   uuid |-> string,
   ipv4 |-> string,
   ipv6 |-> string,
   password |-> string]
  @@ ("date-time" :> [parse |-> "(new Date(x))", serialize |-> "x.toISOString()",
                      type |-> "Date"])
  @@ ("http-date" :> [parse |-> "(new Date(x))", serialize |-> "x.toUTCString()",
                      type |-> "Date"])

----------------------------------------------------------------------------
(* References inside the document.  A pointer is kept as the list of its   *)
(* components, pointer.split('/').                                         *)

Ref(name) == "$ref" :> <<"#", "components", "schemas", name>>

Found(v) == [ok |-> TRUE, value |-> v]
NotFound(error) == [ok |-> FALSE, error |-> error]

RECURSIVE walk(_, _)
walk(object, components) ==
  IF components = <<>> THEN Found(object)
  ELSE LET component == Head(components)
       IN  IF component \notin DOMAIN object
           THEN NotFound("Failed finding object")
           ELSE walk(object[component], Tail(components))

\* resolve, for the references of a document's schemas: their components
\* are names without escapes, none of them a number.
resolve(object, doc) ==
  IF "$ref" \in DOMAIN object
  THEN LET components == object["$ref"]
       IN  IF components = <<>> THEN NotFound("Empty path")
           ELSE IF Head(components) # "#"
           THEN NotFound("Can't resolve references in other documents.")
           ELSE walk(doc, Tail(components))
  ELSE Found(object)

----------------------------------------------------------------------------
(* schema_to_typescript *)

true == [bool |-> TRUE]
false == [bool |-> FALSE]

T(name) == [t |-> name]
IsObjectSchema(s) == "type" \in DOMAIN s /\ s.type = "object"

to_ts_identifier(s) == IF s = "entry-id" THEN "entry_id" ELSE s

Last(seq) == seq[Len(seq)]

ts_name_for_reference(ref, doc) ==
  LET r == resolve(ref, doc)
  IN  IF ~r.ok THEN Throw(r.error)
      ELSE LET ret == IF "title" \in DOMAIN r.value THEN r.value.title
                      ELSE Last(ref["$ref"])
           IN  IF ret = "" THEN Throw("Failed finding a name for reference")
               ELSE [t |-> "name", name |-> to_ts_identifier(ret)]

object_to_type(o) ==
  IF DOMAIN o = {} THEN T("Record<never, never>")
  ELSE [t |-> "object", fields |-> o]

\* The `[additional: string]` field of an object type, when the schema
\* asks for one: the type compiler is entered again on the resolved
\* additionalProperties.
additional_properties(s, additional_type) ==
  IF "additionalProperties" \notin DOMAIN s \/ s.additionalProperties = false
  THEN <<>>
  ELSE IF s.additionalProperties = true
  THEN "[additional: string]" :> [type |-> T("any"), optional |-> FALSE, raw |-> TRUE]
  ELSE "[additional: string]" :>
         [type |-> additional_type, optional |-> FALSE, raw |-> TRUE]

string_type(s, string_formats) ==
  IF "enum" \in DOMAIN s THEN [t |-> "literals", of |-> s.enum]
  ELSE IF "const" \in DOMAIN s THEN [t |-> "literals", of |-> {s.const}]
  ELSE IF "format" \notin DOMAIN s THEN T("string")
  ELSE IF s.format \notin DOMAIN string_formats
       THEN Throw("NotImplemented")
       ELSE T(string_formats[s.format].type)

RECURSIVE schema_to_typescript(_, _, _, _)
RECURSIVE ts_inner(_, _, _, _)

ts_inner(s, string_formats, doc, depth) ==
  LET sub(e) == ts_inner(e, string_formats, doc, depth + 1)
      join(t, list) ==
        LET parts == [i \in DOMAIN list |-> sub(list[i])]
        IN  IF AnyThrow(parts) THEN FirstThrow(parts)
            ELSE [t |-> t, parts |-> parts]
  IN
  IF depth > MaxStack THEN Throw("RangeError")
  ELSE IF DOMAIN s = {} THEN T("any")
  ELSE IF "$ref" \in DOMAIN s THEN ts_name_for_reference(s, doc)
  ELSE IF "allOf" \in DOMAIN s THEN join("&", s.allOf)
  ELSE IF "oneOf" \in DOMAIN s THEN join("|", s.oneOf)
  ELSE IF "anyOf" \in DOMAIN s THEN join("|", s.anyOf)
  ELSE IF "type" \in DOMAIN s THEN
    CASE s.type = "null" -> T("null")
      [] s.type = "boolean" -> T("boolean")
      [] s.type \in {"integer", "number"} -> T("number")
      [] s.type = "string" -> string_type(s, string_formats)
      [] s.type = "array" ->
           IF "items" \in DOMAIN s
           THEN LET item == sub(s.items)
                IN  IF IsThrow(item) THEN item ELSE [t |-> "[]", of |-> item]
           ELSE T("any[]")
      [] s.type = "object" ->
           LET required == IF "required" \in DOMAIN s THEN s.required ELSE {}
               properties == IF "properties" \in DOMAIN s THEN s.properties ELSE <<>>
               declared == [name \in DOMAIN properties |->
                              [type |-> sub(properties[name]),
                               optional |-> name \notin required,
                               raw |-> FALSE]]
               additional_type ==
                 IF "additionalProperties" \notin DOMAIN s THEN None
                 ELSE LET additional == resolve(s.additionalProperties, doc)
                      IN  IF additional.ok
                          THEN schema_to_typescript(additional.value, string_formats,
                                                    doc, depth + 1)
                          ELSE Throw(additional.error)
               generated_properties ==
                 declared @@ additional_properties(s, additional_type)
               thrown == {n \in DOMAIN generated_properties :
                            IsThrow(generated_properties[n].type)}
           IN  IF thrown # {}
               THEN generated_properties[CHOOSE n \in thrown : TRUE].type
               ELSE object_to_type(generated_properties)
      [] OTHER -> Throw("Unhandled type")
  ELSE Throw("Unhandled schema form")

schema_to_typescript(s, string_formats, doc, depth) ==
  IF depth > MaxStack THEN Throw("RangeError")
  ELSE IF s = true THEN T("any")
  ELSE IF s = false THEN T("never")
  ELSE ts_inner(s, string_formats, doc, depth + 1)

----------------------------------------------------------------------------
(* schema_to_parser and schema_to_serializer *)

RECURSIVE SetToSeq(_)
SetToSeq(S) ==
  IF S = {} THEN <<>>
  ELSE LET e == CHOOSE e \in S : TRUE IN <<e>> \o SetToSeq(S \ {e})

\* merge_properties, were the first declaration of a property to stay
RECURSIVE merge_properties_first_wins(_)
merge_properties_first_wins(schemas) ==
  IF schemas = <<>> THEN <<>>
  ELSE LET subschema == schemas[Len(schemas)]
           earlier ==
             merge_properties_first_wins(SubSeq(schemas, 1, Len(schemas) - 1))
       IN  IF "properties" \in DOMAIN subschema
           THEN earlier @@ subschema.properties
           ELSE earlier

\* for (const subschema of schemas) ... properties[name] = spec
RECURSIVE merge_properties(_)
merge_properties(schemas) ==
  IF schemas = <<>> THEN <<>>
  ELSE LET subschema == schemas[Len(schemas)]
           earlier == merge_properties(SubSeq(schemas, 1, Len(schemas) - 1))
       IN  IF "properties" \in DOMAIN subschema
           THEN subschema.properties @@ earlier
           ELSE earlier

merge_required(schemas) ==
  UNION {schemas[i].required :
           i \in {j \in DOMAIN schemas : "required" \in DOMAIN schemas[j]}}

merge_schemas(schemas) ==
  LET properties == merge_properties(schemas)
      required == merge_required(schemas)
  IN  [type |-> "object"]
      @@ (IF DOMAIN properties # {} THEN [properties |-> properties] ELSE <<>>)
      @@ (IF required # {} THEN [required |-> required] ELSE <<>>)

\* `return ${part}` or `return ${x}`
Return(part, x) == IF part = False THEN x ELSE part

\* string_case calling the format's parse in both modes
string_case_always_parses(s, x, string_formats, mode) ==
  IF "format" \in DOMAIN s
  THEN IF s.format \notin DOMAIN string_formats
       THEN False
       ELSE Apply(string_formats[s.format].parse, x)
  ELSE False

\* case 'string' of the type switch
string_case(s, x, string_formats, mode) ==
  IF "format" \in DOMAIN s
  THEN IF s.format \notin DOMAIN string_formats
       THEN False   \* console.warn(`Unknown string format`)
       ELSE IF mode = "parser"
            THEN Apply(string_formats[s.format].parse, x)
            ELSE Apply(string_formats[s.format].serialize, x)
  ELSE False

\* array_case without the test for an element that needs no transformation
array_case_always_maps(x, loop_var, c) ==
  IF IsThrow(c) THEN c
  ELSE Map(x, loop_var, Return(c, loop_var))

\* case 'array', c the result of inner on the items
array_case(x, loop_var, c) ==
  IF IsThrow(c) THEN c
  ELSE IF c = False THEN False
  ELSE Map(x, loop_var, c)

\* object_case overriding every transformed property whether x has it or not
object_case_unconditional(s, x, c) ==
  LET thrown == {key \in DOMAIN c : IsThrow(c[key])}
      changed == {key \in DOMAIN c : c[key] # False}
      modified == [key \in changed |-> [conditional |-> FALSE, value |-> c[key]]]
  IN  IF thrown # {} THEN c[CHOOSE key \in thrown : TRUE]
      ELSE IF changed = {} THEN False
      ELSE Spread(x, modified)

\* case 'object', c[key] the result of inner on the property key
object_case(s, x, c) ==
  LET thrown == {key \in DOMAIN c : IsThrow(c[key])}
      changed == {key \in DOMAIN c : c[key] # False}
      required == IF "required" \in DOMAIN s THEN s.required ELSE {}
      modified == [key \in changed |->
                     [conditional |-> key \notin required, value |-> c[key]]]
  IN  IF thrown # {} THEN c[CHOOSE key \in thrown : TRUE]
      ELSE IF changed = {} THEN False
      ELSE Spread(x, modified)

TypeOf(e) == IF "type" \in DOMAIN e THEN e.type ELSE "undefined"
Group(entries, type) == SelectSeq(entries, LAMBDA e : TypeOf(e) = type)

\* The generator's exception for the first entry of a oneOf that has no
\* `type`.
untyped_entry(entry) ==
  IF \E k \in {"allOf", "oneOf", "anyOf"} : k \in DOMAIN entry
  THEN Throw("NotImplemented")
  ELSE Throw("In a oneOf switch, all clauses must have explicit types")

\* The tests generated for the string entries of a oneOf without
\* discriminator; part[i] is the result of inner on the i-th of them.
string_tests(strings, x, string_formats, mode, part) ==
  LET formatted == {i \in DOMAIN strings : "format" \in DOMAIN strings[i]}
      known == {i \in formatted : strings[i].format \in DOMAIN string_formats}
      typed == {i \in known : string_formats[strings[i].format].type # "string"}
      bare == formatted # DOMAIN strings
  IN  IF strings = <<>> THEN <<>>
      ELSE IF mode = "serializer"
      THEN LET has_bare_string == bare \/ typed # formatted
               order == SelectSeq([i \in DOMAIN strings |-> i], LAMBDA i : i \in typed)
           IN  [i \in DOMAIN order |->
                  LET n == order[i]
                  IN  [test |-> "instanceof",
                       type |-> string_formats[strings[n].format].type,
                       then |-> Apply(string_formats[strings[n].format].serialize, x)]]
               \o (IF has_bare_string THEN <<[test |-> "string", then |-> x]>>
                   ELSE <<>>)
      ELSE LET tried == {i \in typed : part[i] # False}
               has_bare_string == bare \/ known # tried
               order == SelectSeq([i \in DOMAIN strings |-> i], LAMBDA i : i \in tried)
           IN  <<[test |-> "string",
                  try |-> [i \in DOMAIN order |-> part[order[i]]],
                  bare |-> has_bare_string]>>

\* a switch that has a case for the first label alone
discriminator_switch_of_first(x, propertyName, labels, part) ==
  IF AnyThrow(part) THEN FirstThrow(part)
  ELSE [op |-> "switch", on |-> Index(x, propertyName),
        cases |-> [i \in DOMAIN labels \cap {1} |->
                     [case |-> labels[i], return |-> Return(part[i], x)]]]

\* The switch generated for a oneOf with a discriminator; part[i] is the
\* result of inner on the reference of the i-th case.
discriminator_switch(x, propertyName, labels, part) ==
  IF AnyThrow(part) THEN FirstThrow(part)
  ELSE [op |-> "switch", on |-> Index(x, propertyName),
        cases |-> [i \in DOMAIN labels |->
                     [case |-> labels[i], return |-> Return(part[i], x)]]]

RECURSIVE inner(_, _, _, _, _, _)

\* oneOf and anyOf with a discriminator
discriminated(s, x, doc, string_formats, mode, depth) ==
  LET options == IF "oneOf" \in DOMAIN s THEN s.oneOf ELSE s.anyOf
      sub(ref) == inner(ref, x, doc, string_formats, mode, depth + 1)
  IN  IF "mapping" \in DOMAIN s.discriminator
      THEN LET mapping == s.discriminator.mapping
               values == SetToSeq(DOMAIN mapping)
           IN  discriminator_switch(x, s.discriminator.propertyName, values,
                 [i \in DOMAIN values |-> sub("$ref" :> mapping[values[i]])])
      ELSE IF \E i \in DOMAIN options : "$ref" \notin DOMAIN options[i]
      THEN Throw("All entries MUST be refs when using a discriminator")
      ELSE discriminator_switch(x, s.discriminator.propertyName,
             [i \in DOMAIN options |-> Last(options[i]["$ref"])],
             [i \in DOMAIN options |-> sub(options[i])])

\* oneOf and anyOf without a discriminator
undiscriminated(s, x, doc, string_formats, mode, depth) ==
  LET options == IF "oneOf" \in DOMAIN s THEN s.oneOf ELSE s.anyOf
      sub(e, y) == inner(e, y, doc, string_formats, mode, depth + 1)
      resolved == [i \in DOMAIN options |-> resolve(options[i], doc)]
      unresolved == {i \in DOMAIN options : ~resolved[i].ok}
      entries == [i \in DOMAIN options |-> resolved[i].value]
      untyped == Group(entries, "undefined")
      objects == Group(entries, "object")
      arrays == Group(entries, "array")
      strings == Group(entries, "string")
      loop_var == Var("x")
      object_part == sub(objects[1], x)
      items == resolve(arrays[1].items, doc)
      array_part ==
        IF Len(arrays) = 1
        THEN IF "items" \notin DOMAIN arrays[1] THEN False
             ELSE IF ~items.ok THEN Throw(items.error)
             ELSE sub(items.value, loop_var)
        ELSE IF \E i \in DOMAIN arrays : "items" \notin DOMAIN arrays[i] THEN False
             ELSE sub([oneOf |-> [i \in DOMAIN arrays |-> arrays[i].items]], loop_var)
      string_part == [i \in DOMAIN strings |->
                        IF mode = "parser" /\ "format" \in DOMAIN strings[i]
                           /\ strings[i].format \in DOMAIN string_formats
                           /\ string_formats[strings[i].format].type # "string"
                        THEN sub(strings[i], x) ELSE False]
      returns(type) == IF Group(entries, type) # <<>>
                       THEN <<[test |-> type, then |-> x]>> ELSE <<>>
  IN  IF unresolved # {}
      THEN Throw(resolved[CHOOSE i \in unresolved : TRUE].error)
      ELSE IF untyped # <<>> THEN untyped_entry(untyped[1])
      ELSE IF Len(objects) = 1 /\ IsThrow(object_part) THEN object_part
      ELSE IF Len(objects) > 1
      THEN Throw("Can't have multiple objects in a oneOf switch without a discriminator")
      ELSE IF arrays # <<>> /\ IsThrow(array_part) THEN array_part
      ELSE [op |-> "iife", parts |->
              (IF Len(objects) = 1
               THEN <<[test |-> "object", of |-> x, notnull |-> Var("x"),
                       then |-> Return(object_part, x)]>>
               ELSE <<>>)
              \o (IF arrays # <<>>
                  THEN <<[test |-> "array",
                          then |-> IF array_part = False THEN x
                                   ELSE Map(x, loop_var, array_part)]>>
                  ELSE <<>>)
              \o returns("null")
              \o (IF Group(entries, "number") # <<>> \/ Group(entries, "integer") # <<>>
                  THEN <<[test |-> "number", then |-> x]>> ELSE <<>>)
              \o returns("boolean")
              \o string_tests(strings, x, string_formats, mode, string_part)]

inner(s, x, doc, string_formats, mode, depth) ==
  LET sub(e, y) == inner(e, y, doc, string_formats, mode, depth + 1)
  IN
  IF depth > MaxStack THEN Throw("RangeError")
  ELSE IF "$ref" \in DOMAIN s THEN
    LET r == resolve(s, doc)
    IN  IF r.ok THEN sub(r.value, x) ELSE Throw(r.error)
  ELSE IF "allOf" \in DOMAIN s THEN
    LET resolved == [i \in DOMAIN s.allOf |-> resolve(s.allOf[i], doc)]
        unresolved == {i \in DOMAIN s.allOf : ~resolved[i].ok}
        parts == [i \in DOMAIN s.allOf |-> resolved[i].value]
    IN  IF unresolved # {} THEN Throw(resolved[CHOOSE i \in unresolved : TRUE].error)
        ELSE IF \E i \in DOMAIN parts : ~IsObjectSchema(parts[i])
        THEN False   \* console.warn("WARNING: Found allOf part which isn't an object")
        ELSE sub(merge_schemas(parts), x)
  ELSE IF "oneOf" \in DOMAIN s \/ "anyOf" \in DOMAIN s THEN
    IF "discriminator" \in DOMAIN s
    THEN discriminated(s, x, doc, string_formats, mode, depth)
    ELSE undiscriminated(s, x, doc, string_formats, mode, depth)
  ELSE IF "type" \in DOMAIN s THEN
    CASE s.type = "string" -> string_case(s, x, string_formats, mode)
      [] s.type = "array" ->
           IF "items" \in DOMAIN s
           THEN array_case(x, Var("x"), sub(s.items, Var("x")))
           ELSE False
      [] s.type = "object" ->
           IF "properties" \in DOMAIN s
           THEN object_case(s, x, [key \in DOMAIN s.properties |->
                                     sub(s.properties[key], Index(x, key))])
           ELSE False
      [] OTHER -> False
  ELSE Throw("Unhandled schema form")

schema_to_serializer_or_parser(s, doc, x, string_formats, mode) ==
  IF s = true THEN x
  ELSE IF s = false THEN ThrowExpr
  ELSE LET result == inner(s, x, doc, string_formats, mode, 1)
       IN  IF result = False THEN x ELSE result

schema_to_serializer(s, doc, string_formats, x) ==
  schema_to_serializer_or_parser(s, doc, x, string_formats, "serializer")

schema_to_parser(s, doc, string_formats, x) ==
  schema_to_serializer_or_parser(s, doc, x, string_formats, "parser")

----------------------------------------------------------------------------
(* What the generated expressions do when they run.  A string value       *)
(* carries the lexical form it is written in (`as`) and what it denotes   *)
(* (`s`), so that x.toISOString() undoes new Date(x) on a date-time       *)
(* string and on no other.                                                *)

Str(s, as) == [k |-> "string", s |-> s, as |-> as]
Arr(items) == [k |-> "array", items |-> items]
Obj(fields) == [k |-> "object", fields |-> fields]
Instance(type, of) == [k |-> type, of |-> of]
undefined == [k |-> "undefined"]
RuntimeError == [k |-> "error"]

\* the error thrown behind the tests of a oneOf or anyOf
FailedParsing ==
  [k |-> "error",
   message |-> "Failed parsing field as any of the configured string formats."]

\* the first error among the values, for an expression that evaluates them in order
FirstError(values) ==
  values[CHOOSE i \in DOMAIN values :
           values[i].k = "error" /\ \A j \in DOMAIN values : values[j].k = "error" => i <= j]

\* The code a FormatSpec function returned, run on the value v.
RunFormat(fn, v) ==
  CASE fn = "(new URL(x))" ->
         IF v.k = "string" /\ v.as = "uri" THEN Instance("URL", v.s) ELSE RuntimeError
    [] fn = "x.href" ->
         IF v.k = "URL" THEN Str(v.of, "uri") ELSE undefined
    [] fn = "(new Date(x))" ->
         IF v.k = "string" /\ v.as \in {"date-time", "http-date"}
         THEN Instance("Date", v.s) ELSE Instance("Date", "Invalid Date")
    [] fn = "x.toISOString()" ->
         IF v.k = "Date" /\ v.of # "Invalid Date" THEN Str(v.of, "date-time")
         ELSE RuntimeError
    [] fn = "x.toUTCString()" ->
         IF v.k = "Date" THEN Str(v.of, "http-date") ELSE RuntimeError
    [] OTHER -> RuntimeError

RECURSIVE Eval(_, _)
Eval(e, env) ==
  CASE e.op = "var" ->
         IF e.name \in DOMAIN env THEN env[e.name] ELSE RuntimeError
    [] e.op = "index" ->
         LET o == Eval(e.of, env)
         IN  IF o.k = "object"
             THEN IF e.key \in DOMAIN o.fields THEN o.fields[e.key] ELSE undefined
             ELSE IF o.k = "error" THEN o
             ELSE IF o.k = "undefined" THEN RuntimeError
             ELSE undefined
    [] e.op = "call" ->
         LET v == Eval(e.arg, env)
         IN  IF v.k = "error" THEN v ELSE RunFormat(e.fn, v)
    [] e.op = "map" ->
         LET a == Eval(e.of, env)
             items == [i \in DOMAIN a.items |->
                         Eval(e.body, (e.var.name :> a.items[i]) @@ env)]
         IN  IF a.k = "error" THEN a
             ELSE IF a.k # "array" THEN RuntimeError
             ELSE IF \E i \in DOMAIN items : items[i].k = "error" THEN FirstError(items)
             ELSE Arr(items)
    [] e.op = "spread" ->
         LET o == Eval(e.of, env)
             set == {key \in DOMAIN e.modified :
                       ~e.modified[key].conditional \/ key \in DOMAIN o.fields}
             fields == [key \in set |-> Eval(e.modified[key].value, env)]
         IN  IF o.k = "error" THEN o
             ELSE IF o.k # "object" THEN RuntimeError
             ELSE IF \E key \in set : fields[key].k = "error"
             THEN fields[CHOOSE key \in set : fields[key].k = "error"]
             ELSE Obj(fields @@ o.fields)
    [] e.op = "switch" ->
         LET on == Eval(e.on, env)
             hit == {i \in DOMAIN e.cases : on.k = "string" /\ e.cases[i].case = on.s}
         IN  IF on.k = "error" THEN on
             ELSE IF hit = {} THEN FailedParsing
             ELSE Eval(e.cases[CHOOSE i \in hit : \A j \in hit : i <= j].return, env)
    [] OTHER -> RuntimeError

----------------------------------------------------------------------------
(* The documents and schemas the compilers are run on *)

Stamp == [type |-> "string", format |-> "date-time"]

Components(schemas) ==
  [openapi |-> "3.0.0", components |-> [schemas |-> schemas @@ [Stamp |-> Stamp]]]

\* no schema refers back to itself
DocFlat ==
  Components([Entry |-> [type |-> "object", required |-> {"id"},
                         properties |-> [id |-> [type |-> "string", format |-> "uuid"],
                                         at |-> Ref("Stamp"),
                                         note |-> [type |-> "string"]]],
              Cat |-> [type |-> "object", required |-> {"kind"},
                       properties |-> [kind |-> [type |-> "string"],
                                       born |-> Ref("Stamp")]],
              Dog |-> [type |-> "object", required |-> {"kind"},
                       properties |-> [kind |-> [type |-> "string"]]]])

\* a schema that refers to itself from a property, through an array
DocTree ==
  Components([Tree |-> [type |-> "object",
                        properties |-> [at |-> Ref("Stamp"),
                                        children |-> [type |-> "array",
                                                      items |-> Ref("Tree")]]]])

\* a schema that refers to itself from items
DocList ==
  Components([List |-> [type |-> "array", items |-> Ref("List")]])

\* a schema that refers to itself from additionalProperties
DocDict ==
  Components([Dict |-> [type |-> "object", additionalProperties |-> Ref("Dict")]])

\* two schemas that refer to each other
DocPingPong ==
  Components([Ping |-> [type |-> "object", required |-> {"next"},
                        properties |-> [next |-> Ref("Pong")]],
              Pong |-> [type |-> "object",
                        properties |-> [next |-> Ref("Ping")]]])

Documents == {DocFlat, DocTree, DocList, DocDict, DocPingPong}

PlainLeaves ==
  {[type |-> "number"], [type |-> "integer"], [type |-> "boolean"],
   [type |-> "null"], [type |-> "string"]}

FormatLeaves ==
  {[type |-> "string", format |-> f] : f \in {"date-time", "uri", "uuid"}}

\* `email` is not in the registry
UnknownFormatLeaf == [type |-> "string", format |-> "email"]

Leaves == PlainLeaves \cup FormatLeaves \cup {UnknownFormatLeaf, Ref("Stamp")}

\* what stands beside the property `a` of an enumerated object schema
Siblings == {[type |-> "string"], [type |-> "string", format |-> "uri"]}

RECURSIVE InlineSchemas(_)
InlineSchemas(depth) ==
  IF depth = 0 THEN Leaves
  ELSE LET below == InlineSchemas(depth - 1)
       IN  below
           \cup {[type |-> "array"], [type |-> "object"]}
           \cup {[type |-> "array", items |-> e] : e \in below}
           \cup {[type |-> "object", properties |-> [a |-> e]] : e \in below}
           \cup {[type |-> "object", properties |-> [a |-> e], required |-> {"a"}] :
                   e \in below}
           \cup {[type |-> "object", properties |-> [a |-> e, b |-> f]] :
                   e \in below, f \in Siblings}

\* schemas of the forms the enumeration leaves out
Combined ==
  {<<>>, true, false,
   [type |-> "file"],
   [allOf |-> <<Ref("Cat"), [type |-> "object",
                             properties |-> [seen |-> Stamp], required |-> {"seen"}]>>],
   [allOf |-> <<Ref("Cat"), [type |-> "string"]>>],
   [oneOf |-> <<Ref("Cat"), Ref("Dog")>>,
    discriminator |-> [propertyName |-> "kind",
                       mapping |-> [cat |-> <<"#", "components", "schemas", "Cat">>,
                                    dog |-> <<"#", "components", "schemas", "Dog">>]]],
   [oneOf |-> <<Ref("Cat"), Ref("Dog")>>,
    discriminator |-> [propertyName |-> "kind"]],
   [oneOf |-> <<Ref("Cat"), Ref("Dog")>>,
    discriminator |-> [propertyName |-> "kind",
                       mapping |-> [cat |-> <<"#", "components", "schemas", "Cat">>]]],
   [anyOf |-> <<Ref("Cat"), Ref("Dog")>>,
    discriminator |-> [propertyName |-> "kind",
                       mapping |-> [feline |-> <<"#", "components", "schemas", "Cat">>,
                                    dog |-> <<"#", "components", "schemas", "Dog">>]]],
   [oneOf |-> <<Ref("Cat"), Ref("Dog")>>,
    discriminator |-> [propertyName |-> "kind", mapping |-> <<>>]],
   [oneOf |-> <<Ref("Cat")>>,
    discriminator |-> [propertyName |-> "kind",
                       mapping |-> [bird |-> <<"#", "components", "schemas", "Bird">>]]],
   [anyOf |-> <<[type |-> "number"], Stamp, [type |-> "string"],
                [type |-> "array", items |-> Stamp], Ref("Dog")>>],
   [oneOf |-> <<[type |-> "null"], [allOf |-> <<Ref("Cat")>>]>>],
   [type |-> "object", additionalProperties |-> true],
   [type |-> "object", additionalProperties |-> Stamp,
    properties |-> [a |-> [type |-> "number"]]]}

Named(doc) == DOMAIN doc.components.schemas

\* The schemas compiled against a document: each of its named schemas, a
\* reference to each, and for the flat document the inline ones.
RootSchemas(doc) ==
  {doc.components.schemas[n] : n \in Named(doc)}
  \cup {Ref(n) : n \in Named(doc)}
  \cup (IF doc = DocFlat THEN InlineSchemas(MaxDepth) \cup Combined ELSE {})

----------------------------------------------------------------------------
(* Well-formed wire values of a schema *)

\* How many sample values are drawn per schema, less one.
MaxSample == 2

RECURSIVE Sample(_, _, _, _)
Sample(s, doc, c, fuel) ==
  LET sub(e, d) == Sample(e, doc, d, fuel - 1)
      text == IF c = 0 THEN "v0" ELSE "v1"
  IN
  IF fuel = 0 \/ DOMAIN s = {} \/ "bool" \in DOMAIN s THEN [k |-> "null"]
  ELSE IF "$ref" \in DOMAIN s THEN
    LET r == resolve(s, doc) IN IF r.ok THEN sub(r.value, c) ELSE [k |-> "null"]
  ELSE IF "allOf" \in DOMAIN s THEN
    sub(merge_schemas([i \in DOMAIN s.allOf |->
                         LET r == resolve(s.allOf[i], doc)
                         IN  IF r.ok THEN r.value ELSE <<>>]), c)
  ELSE IF "oneOf" \in DOMAIN s THEN sub(s.oneOf[1], c)
  ELSE IF "anyOf" \in DOMAIN s THEN sub(s.anyOf[1], c)
  ELSE IF "type" \notin DOMAIN s THEN [k |-> "null"]
  ELSE CASE s.type = "string" ->
              Str(text, IF "format" \in DOMAIN s THEN s.format ELSE "plain")
         [] s.type \in {"number", "integer"} -> [k |-> "number", n |-> c]
         [] s.type = "boolean" -> [k |-> "boolean", b |-> c = 0]
         [] s.type = "array" ->
              IF "items" \notin DOMAIN s \/ c >= 2 THEN Arr(<<>>)
              ELSE IF c = 0 THEN Arr(<<sub(s.items, 0), sub(s.items, 1)>>)
              ELSE Arr(<<sub(s.items, 1)>>)
         [] s.type = "object" ->
              LET properties == IF "properties" \in DOMAIN s THEN s.properties ELSE <<>>
                  required == IF "required" \in DOMAIN s THEN s.required ELSE {}
                  present == IF c = 1 THEN DOMAIN properties \cap required
                             ELSE DOMAIN properties
              IN  Obj([key \in present |-> sub(properties[key], c)]
                      @@ (IF c = 0 THEN [extra |-> Str("kept", "plain")] ELSE <<>>))
         [] OTHER -> [k |-> "null"]

\* the values the discriminating property of a received object may have
Tags == {"cat", "dog", "feline", "bird"}

\* the value v with the discriminating property of the schema set to tag
Tagged(v, s, tag) ==
  IF "discriminator" \in DOMAIN s /\ v.k = "object"
  THEN Obj((s.discriminator.propertyName :> Str(tag, "plain")) @@ v.fields)
  ELSE v

----------------------------------------------------------------------------
(* The schema compilers at work: the generator compiles a schema, then     *)
(* the generated parser receives a value and the generated serializer      *)
(* sends it back.                                                          *)

body == Var("validated_body")

InitSchema ==
  /\ document \in Documents
  /\ schema \in RootSchemas(document)
  /\ phase = "loaded"
  /\ ts_type = None /\ parser = None /\ serializer = None
  /\ wire = None /\ parsed = None /\ emitted = None
  /\ IdlePointer /\ IdleContent /\ IdleOperation /\ IdleOther

Generate ==
  /\ phase = "loaded"
  /\ ts_type' = schema_to_typescript(schema, DEFAULT_STRING_FORMATS, document, 1)
  /\ parser' = schema_to_parser(schema, document, DEFAULT_STRING_FORMATS, body)
  /\ serializer' = schema_to_serializer(schema, document, DEFAULT_STRING_FORMATS, body)
  /\ phase' = "generated"
  /\ UNCHANGED <<document, schema, wire, parsed, emitted>>
  /\ UNCHANGED <<pointerVars, contentVars, operationVars, otherVars>>

Receive ==
  /\ phase = "generated"
  /\ ~IsThrow(parser) /\ ~IsThrow(serializer)
  /\ \E c \in 0..MaxSample, tag \in Tags :
       /\ wire' = Tagged(Sample(schema, document, c, MaxStack), schema, tag)
       /\ parsed' = Eval(parser, "validated_body" :> wire')
  /\ phase' = "received"
  /\ UNCHANGED <<document, schema, ts_type, parser, serializer, emitted>>
  /\ UNCHANGED <<pointerVars, contentVars, operationVars, otherVars>>

Send ==
  /\ phase = "received"
  /\ emitted' = Eval(serializer, "validated_body" :> parsed)
  /\ phase' = "sent"
  /\ UNCHANGED <<document, schema, ts_type, parser, serializer, wire, parsed>>
  /\ UNCHANGED <<pointerVars, contentVars, operationVars, otherVars>>

NextSchema == Generate \/ Receive \/ Send

SpecSchema == InitSchema /\ [][NextSchema]_vars

----------------------------------------------------------------------------
(* Shapes of schemas the claims speak about *)

\* only plain number, integer, boolean, null and string without format,
\* directly or inside arrays and objects
RECURSIVE IsPlain(_)
IsPlain(s) ==
  /\ DOMAIN s \subseteq {"type", "items", "properties", "required"}
  /\ "type" \in DOMAIN s
  /\ s.type \in {"number", "integer", "boolean", "null", "string", "array", "object"}
  /\ "items" \in DOMAIN s => s.type = "array" /\ IsPlain(s.items)
  /\ "properties" \in DOMAIN s =>
       s.type = "object" /\ \A key \in DOMAIN s.properties : IsPlain(s.properties[key])

\* only strings with a registered format, directly or inside arrays and
\* object properties
RECURSIVE OnlyFormats(_)
OnlyFormats(s) ==
  /\ "type" \in DOMAIN s
  /\ CASE s.type = "string" ->
            "format" \in DOMAIN s /\ s.format \in DOMAIN DEFAULT_STRING_FORMATS
       [] s.type = "array" -> "items" \in DOMAIN s /\ OnlyFormats(s.items)
       [] s.type = "object" ->
            /\ "properties" \in DOMAIN s
            /\ \A key \in DOMAIN s.properties : OnlyFormats(s.properties[key])
       [] OTHER -> FALSE

\* a string with an unregistered format, directly or inside arrays and
\* object properties
RECURSIVE UsesUnknownFormat(_)
UsesUnknownFormat(s) ==
  /\ "type" \in DOMAIN s
  /\ CASE s.type = "string" ->
            "format" \in DOMAIN s /\ s.format \notin DOMAIN DEFAULT_STRING_FORMATS
       [] s.type = "array" -> "items" \in DOMAIN s /\ UsesUnknownFormat(s.items)
       [] s.type = "object" ->
            /\ "properties" \in DOMAIN s
            /\ \E key \in DOMAIN s.properties : UsesUnknownFormat(s.properties[key])
       [] OTHER -> FALSE

\* the names of the schemas that s refers to, wherever the reference stands
RECURSIVE RefNames(_)
RefNames(s) ==
  IF "$ref" \in DOMAIN s THEN {Last(s["$ref"])}
  ELSE UNION {UNION {RefNames(s[k][i]) : i \in DOMAIN s[k]} :
                k \in {"allOf", "oneOf", "anyOf"} \cap DOMAIN s}
       \cup (IF "items" \in DOMAIN s THEN RefNames(s.items) ELSE {})
       \cup (IF "additionalProperties" \in DOMAIN s
             THEN RefNames(s.additionalProperties) ELSE {})
       \cup (IF "properties" \in DOMAIN s
             THEN UNION {RefNames(s.properties[key]) : key \in DOMAIN s.properties}
             ELSE {})

\* the names reachable from the named schema n in at most `steps` references
RECURSIVE Reachable(_, _, _)
Reachable(doc, n, steps) ==
  IF steps = 0 THEN {}
  ELSE LET direct == RefNames(doc.components.schemas[n]) \cap Named(doc)
       IN  direct \cup UNION {Reachable(doc, m, steps - 1) : m \in direct}

\* some schema of the document refers back to itself
HasCycle(doc) ==
  \E n \in Named(doc) : n \in Reachable(doc, n, Cardinality(Named(doc)))

----------------------------------------------------------------------------
(* The claims about the schema compilers *)

\* the places of an expression where a format function is called
RECURSIVE Transformed(_)
Transformed(e) ==
  CASE e.op = "call" -> {<<>>}
    [] e.op = "map" -> {<<"[]">> \o p : p \in Transformed(e.body)}
    [] e.op = "spread" ->
         UNION {{<<key>> \o p : p \in Transformed(e.modified[key].value)} :
                  key \in DOMAIN e.modified}
    [] OTHER -> {}

\* C1: for a schema whose leaves are all plain (number, integer, boolean,
\* null, string without format), nested in arrays and objects or not, the
\* parser and the serializer are both the input expression itself.
C1_NoOpLaw ==
  phase # "loaded" /\ IsPlain(schema) => parser = body /\ serializer = body

C1_Witness ==
  /\ phase = "generated" /\ IsPlain(schema)
  /\ schema.type = "object" /\ "properties" \in DOMAIN schema
  /\ schema.properties.a.type = "array" /\ "items" \in DOMAIN schema.properties.a
  /\ parser = body /\ serializer = body

\* C2: for a schema built only from strings with registered formats, the
\* serializer run on what the parser made of a wire value gives the wire
\* value back, and both transform the same places of the value.
C2_RoundTrip ==
  phase = "sent" /\ OnlyFormats(schema) =>
    emitted = wire /\ Transformed(parser) = Transformed(serializer)

C2_Witness ==
  /\ phase = "sent" /\ OnlyFormats(schema)
  /\ schema.type = "object" /\ schema.properties.a.type = "array"
  /\ "a" \in DOMAIN wire.fields /\ Len(wire.fields.a.items) = 2
  /\ parsed # wire /\ emitted = wire

\* C3: in a document whose schemas refer to each other in a cycle,
\* schema_to_typescript comes to an end for each schema: the call stack
\* never overflows.
C3_TypeCompilerTerminates ==
  phase # "loaded" /\ HasCycle(document) => ts_type # Throw("RangeError")

\* C4: in a document whose schemas refer to each other in a cycle,
\* schema_to_parser and schema_to_serializer come to an end: the call stack
\* never overflows.
C4_ParserCompilerTerminates ==
  phase # "loaded" /\ HasCycle(document) =>
    parser # Throw("RangeError") /\ serializer # Throw("RangeError")

\* C5: a string schema with a format that is not in the registry makes
\* schema_to_typescript, schema_to_parser and schema_to_serializer fail.
C5_UnknownFormatFails ==
  phase # "loaded" /\ UsesUnknownFormat(schema) =>
    IsThrow(ts_type) /\ IsThrow(parser) /\ IsThrow(serializer)

----------------------------------------------------------------------------
(* The reference resolver on the text of a pointer.  A string is the       *)
(* sequence of its characters; a JSON object is [obj |-> fields], an array *)
(* [arr |-> items], a string [str |-> text], null is [null |-> TRUE].      *)

\* Number of characters of a pointer after its first component.
MaxPointer == 4

\* s.split(sep): the pieces of s between the separators, at least one
RECURSIVE split(_, _)
split(s, sep) ==
  IF \A i \in DOMAIN s : s[i] # sep THEN <<s>>
  ELSE LET at == CHOOSE i \in DOMAIN s :
                   s[i] = sep /\ \A j \in 1..(i - 1) : s[j] # sep
       IN  <<SubSeq(s, 1, at - 1)>> \o split(SubSeq(s, at + 1, Len(s)), sep)

\* The flatMap of json_path_unescape from character i on: `last` is only
\* assigned when the character before was not a tilde.
\* and the string it returns is [str |-> its characters].
RECURSIVE unescape_from(_, _, _, _)
unescape_from(s, i, last, acc) ==
  IF i > Len(s) THEN [str |-> acc]
  ELSE LET c == s[i]
       IN  IF last = "~"
           THEN IF c = "0" THEN unescape_from(s, i + 1, last, Append(acc, "~"))
                ELSE IF c = "1" THEN unescape_from(s, i + 1, last, Append(acc, "/"))
                ELSE Throw("Invalid escape found")
           ELSE unescape_from(s, i + 1, c, Append(acc, c))

json_path_unescape(s) == unescape_from(s, 1, "", <<>>)

NaN == [nan |-> TRUE]

RECURSIVE decimal(_)
decimal(s) ==
  IF s = <<>> THEN 0
  ELSE 10 * decimal(SubSeq(s, 1, Len(s) - 1)) + (IF Last(s) = "1" THEN 1 ELSE 0)

\* Number(component), for the characters a pointer is written with here:
\* the empty string is 0, a string of digits its value, all else NaN.
Number(component) ==
  IF \A i \in DOMAIN component : component[i] \in {"0", "1"}
  THEN [n |-> decimal(component)]
  ELSE NaN

isNaN(idx) == "nan" \in DOMAIN idx

\* isObject of the imported library: true of a plain object, false of a
\* string; `accepts` says whether it holds of an array and of null.
isObject(v, accepts) ==
  \/ "obj" \in DOMAIN v
  \/ "arr" \in DOMAIN v /\ "arr" \in accepts
  \/ "null" \in DOMAIN v /\ "null" \in accepts

Returned(v) == [op |-> "return", value |-> v]

\* object[component] of JavaScript, undefined when there is no such key
Get(v, component) ==
  IF "null" \in DOMAIN v THEN Throw("TypeError")
  ELSE IF "obj" \in DOMAIN v /\ component \in DOMAIN v.obj THEN v.obj[component]
  ELSE undefined

\* object[idx] of an array
At(v, idx) ==
  IF idx + 1 \in DOMAIN v.arr THEN v.arr[idx + 1] ELSE undefined

\* One iteration of the loop of resolveReference: the new value of
\* `object`, or what is thrown.
lookup(v, component, accepts) ==
  LET idx == Number(component)
  IN  IF isNaN(idx)
      THEN IF ~isObject(v, accepts)
           THEN Throw("Attempted to get attribute of non-object")
           ELSE Get(v, component)
      ELSE IF "arr" \notin DOMAIN v
           THEN Throw("Attempted to index a non-array")
           ELSE At(v, idx.n)

\* The documents the resolver is run on: keys that need no escape, keys
\* that do, keys that read as numbers, and an array.
Text(t) == [str |-> t]
null == [null |-> TRUE]
Object(name) == [obj |-> (<<"a">> :> Text(name))]

PointerDoc ==
  [obj |->
     (<<"a">> :> [arr |-> <<Object("a.0"), null>>])
     @@ (<<"a", "a">> :> [obj |-> (<<"a">> :> Object("aa.a")
                                   @@ <<>> :> Object("aa.")
                                   @@ <<"0">> :> Object("aa.0"))])
     @@ (<<"/">> :> Object("/"))
     @@ (<<"~">> :> Object("~"))
     @@ (<<"~", "/">> :> Object("~/"))
     @@ (<<"a", "/", "a">> :> Object("a/a"))
     @@ (<<"1">> :> Object("1"))
     @@ (<<"0">> :> Text("0"))
     @@ (<<>> :> null)]

Characters == {"/", "~", "0", "1", "a"}

RECURSIVE Strings(_)
Strings(n) ==
  IF n = 0 THEN {<<>>}
  ELSE LET shorter == Strings(n - 1)
       IN  shorter \cup {Append(s, c) : s \in shorter, c \in Characters}

\* pointers into the document, into another document, and relative ones
Pointers ==
  {first \o rest : first \in {<<"#">>, <<>>, <<"a", "#">>},
                   rest \in Strings(MaxPointer)}

InitPointer ==
  /\ ptr_doc = PointerDoc
  /\ ptr_ref \in {("$ref" :> p) : p \in Pointers} \cup {Object("inline")}
  /\ ptr_isObject \in SUBSET {"arr", "null"}
  /\ ptr_pc = "resolve"
  /\ ptr_components = <<>>
  /\ ptr_object = None /\ ptr_raw = None /\ ptr_component = None
  /\ ptr_outcome = None
  /\ document = None
  /\ IdleSchema /\ IdleContent /\ IdleOperation /\ IdleOther

\* resolve up to the loop of resolveReference
Enter ==
  /\ ptr_pc = "resolve"
  /\ IF "$ref" \notin DOMAIN ptr_ref
     THEN /\ ptr_outcome' = Returned(ptr_ref)
          /\ ptr_pc' = "done"
          /\ UNCHANGED <<ptr_components, ptr_object>>
     ELSE LET components == split(ptr_ref["$ref"], "/")
          IN  IF Len(components) = 0
              THEN /\ ptr_outcome' = Throw("Empty path")
                   /\ ptr_pc' = "done"
                   /\ UNCHANGED <<ptr_components, ptr_object>>
              ELSE IF components[1] # <<"#">>
              THEN /\ ptr_outcome' = Throw("Can't resolve references in other documents.")
                   /\ ptr_pc' = "done"
                   /\ UNCHANGED <<ptr_components, ptr_object>>
              ELSE /\ ptr_components' = Tail(components)
                   /\ ptr_object' = ptr_doc
                   /\ ptr_pc' = "loop"
                   /\ UNCHANGED ptr_outcome
  /\ UNCHANGED <<ptr_doc, ptr_ref, ptr_isObject, ptr_raw, ptr_component>>
  /\ UNCHANGED <<document, schemaVars, contentVars, operationVars, otherVars>>

\* one iteration of the loop of resolveReference
Step ==
  /\ ptr_pc = "loop" /\ ptr_components # <<>>
  /\ LET component_ == Head(ptr_components)
         component == json_path_unescape(component_)
         found == IF IsThrow(component) THEN component
                  ELSE lookup(ptr_object, component.str, ptr_isObject)
     IN  /\ ptr_raw' = [str |-> component_]
         /\ ptr_component' = component
         /\ IF IsThrow(found)
            THEN /\ ptr_outcome' = found /\ ptr_pc' = "done"
                 /\ UNCHANGED <<ptr_object, ptr_components>>
            ELSE IF found = undefined
            THEN /\ ptr_outcome' = Throw("Failed finding object") /\ ptr_pc' = "done"
                 /\ UNCHANGED <<ptr_object, ptr_components>>
            ELSE /\ ptr_object' = found
                 /\ ptr_components' = Tail(ptr_components)
                 /\ UNCHANGED <<ptr_outcome, ptr_pc>>
  /\ UNCHANGED <<ptr_doc, ptr_ref, ptr_isObject>>
  /\ UNCHANGED <<document, schemaVars, contentVars, operationVars, otherVars>>

\* resolveReference returns and resolve looks at what it got
Finish ==
  /\ ptr_pc = "loop" /\ ptr_components = <<>>
  /\ ptr_outcome' = IF ~isObject(ptr_object, ptr_isObject)
                    THEN Throw("didn't resolve to an object")
                    ELSE Returned(ptr_object)
  /\ ptr_pc' = "done"
  /\ UNCHANGED <<ptr_doc, ptr_ref, ptr_isObject, ptr_components, ptr_object,
                 ptr_raw, ptr_component>>
  /\ UNCHANGED <<document, schemaVars, contentVars, operationVars, otherVars>>

NextPointer == Enter \/ Step \/ Finish

SpecPointer == InitPointer /\ [][NextPointer]_vars

\* RFC 6901: `~1` stands for `/`, `~0` for `~`, all else for itself
RECURSIVE Unescaped(_)
Unescaped(s) ==
  IF s = <<>> THEN <<>>
  ELSE IF Len(s) >= 2 /\ s[1] = "~" /\ s[2] \in {"0", "1"}
  THEN <<IF s[2] = "0" THEN "~" ELSE "/">> \o Unescaped(SubSeq(s, 3, Len(s)))
  ELSE <<s[1]>> \o Unescaped(Tail(s))

\* every tilde of s starts an escape
WellEscaped(s) ==
  \A i \in DOMAIN s : s[i] = "~" => i < Len(s) /\ s[i + 1] \in {"0", "1"}

IsNumeric(s) == s # <<>> /\ \A i \in DOMAIN s : s[i] \in {"0", "1"}

\* The node a pointer's segments lead to: a name selects a key of an
\* object, a number an element of an array.
RECURSIVE Reached(_, _)
Reached(v, segments) ==
  IF segments = <<>> THEN Found(v)
  ELSE LET segment == Unescaped(Head(segments))
       IN  IF IsNumeric(segment)
           THEN IF "arr" \in DOMAIN v /\ decimal(segment) + 1 \in DOMAIN v.arr
                THEN Reached(v.arr[decimal(segment) + 1], Tail(segments))
                ELSE NotFound("index")
           ELSE IF "obj" \in DOMAIN v /\ segment \in DOMAIN v.obj
                THEN Reached(v.obj[segment], Tail(segments))
                ELSE NotFound("name")

\* C6: resolve returns the node reached by walking the unescaped segments
\* of `#/s1/.../sn` from the root of the document when every step finds a
\* value, and throws in every other case; it never returns undefined.
C6_ResolveWalksThePointer ==
  ptr_pc = "done" /\ "$ref" \in DOMAIN ptr_ref =>
    LET components == split(ptr_ref["$ref"], "/")
        reached == Reached(ptr_doc, Tail(components))
    IN  /\ ptr_outcome # Returned(undefined)
        /\ (\A i \in DOMAIN components : WellEscaped(components[i])) =>
             IF components[1] = <<"#">> /\ reached.ok
             THEN ptr_outcome = Returned(reached.value)
             ELSE IsThrow(ptr_outcome)

\* C7: each segment is looked up with every `~1` replaced by `/`, every
\* `~0` by `~` and every other character as it is.
C7_SegmentsAreUnescaped ==
  ptr_raw # None /\ WellEscaped(ptr_raw.str) =>
    ptr_component = [str |-> Unescaped(ptr_raw.str)]

----------------------------------------------------------------------------
(* Request bodies.  A content type is kept as content_type.split('/'),     *)
(* the list of its parts; generated code is a record naming what it does.  *)

\* Number of media types in the content of a request body.
MaxContent == 2

content_type_matches(clause_, target_) ==
  IF target_[1] = "*" THEN TRUE
  ELSE IF clause_[1] = target_[1] /\ clause_[2] = target_[2] THEN TRUE
  ELSE IF clause_[1] = target_[1] /\ clause_[2] = "*" THEN TRUE
  ELSE FALSE

\* the keys of a clause of match_content_type, a single key as a list of one
Single(key) == <<key>>

\* match_content_type: the call of the proc of the first clause with a key
\* matching content_type, on its parts; undefined when no clause matches
match_content_type(content_type, clauses) ==
  LET ctype == content_type
      matching == {i \in DOMAIN clauses :
                     \E k \in DOMAIN clauses[i].keys :
                       content_type_matches(clauses[i].keys[k], ctype)}
  IN  IF matching = {} THEN undefined
      ELSE [proc |-> clauses[CHOOSE i \in matching : \A j \in matching : i <= j].proc,
            ctype |-> ctype]

\* the immediately called function validate_and_parse_body returns
iife(validator, body_var, type, compiled) ==
  IF IsThrow(compiled) THEN compiled
  ELSE IF IsThrow(type) THEN type
  ELSE [op |-> "iife", validator |-> validator, of |-> body_var,
        as |-> type, return |-> compiled]

\* validate_and_parse_body: an expression that validates body_var against
\* the schema and evaluates to the parsed body
validate_and_parse_body(s, body_var, string_formats, doc) ==
  iife(IF "$ref" \in DOMAIN s THEN [validate |-> Last(s["$ref"])]
       ELSE [validate_type |-> s],
       body_var,
       schema_to_typescript(s, <<>>, doc, 1),
       schema_to_parser(s, doc, string_formats, Var("validated_body")))

\* the clauses handle_request_body_payload hands to match_content_type
payload_clauses ==
  << [keys |-> Single(<<"text", "*">>), proc |-> "text"],
     [keys |-> << <<"application", "json">>,
                  <<"application", "x-www-form-urlencoded">> >>,
      proc |-> "structured"],
     [keys |-> << <<"application", "binary">>,
                  <<"application", "octet-stream">> >>,
      proc |-> "binary"],
     [keys |-> Single(<<"*", "*">>), proc |-> "any"] >>

decoded == [op |-> "decode", of |-> Var("raw_body")]

structured_body(ctype) ==
  [op |-> IF ctype[2] = "json" THEN "JSON.parse" ELSE "qs.parse", arg |-> decoded]

structured(ctype, validated) ==
  IF IsThrow(validated) THEN validated
  ELSE [body |-> validated, content_type |-> ctype]

\* what each proc generates for one media type of the body
payload_proc(proc, ctype, content_info, string_formats, doc) ==
  CASE proc = "text" ->
         [body |-> decoded, content_type |-> <<"text", "plain">>]
    [] proc = "structured" ->
         structured(ctype,
           IF "schema" \in DOMAIN content_info
           THEN validate_and_parse_body(content_info.schema, structured_body(ctype),
                                        string_formats, doc)
           ELSE structured_body(ctype))
    [] proc = "binary" ->
         [body |-> Var("raw_body"), content_type |-> ctype]
    [] proc = "any" ->
         [body |-> Var("raw_body"),
          content_type |-> [op |-> "header", name |-> "Content-Type"]]

branch(content_type, code) ==
  IF IsThrow(code) THEN code ELSE [is |-> content_type, then |-> code]

\* one branch of handle_request_body_payload; spreading the undefined of
\* match_content_type into push is a TypeError
payload_branch(content_type, content_info, matching, string_formats, doc) ==
  IF matching = undefined THEN Throw("TypeError")
  ELSE branch(content_type,
              payload_proc(matching.proc, matching.ctype, content_info,
                           string_formats, doc))

branches(list) ==
  IF AnyThrow(list) THEN FirstThrow(list)
  ELSE [op |-> "branches", of |-> list, else |-> "415"]

\* handle_request_body_payload: one branch for each media type of the
\* body, in the order of its content
handle_request_body_payload(body_, string_formats, doc) ==
  IF ~body_.required THEN Throw("Not implemented: Optional request bodies")
  ELSE branches([i \in DOMAIN body_.content |->
                   payload_branch(body_.content[i][1], body_.content[i][2],
                     match_content_type(body_.content[i][1], payload_clauses),
                     string_formats, doc)])

request_body_to_serializer_input_type(content_info, content_type, string_formats, doc) ==
  IF "schema" \in DOMAIN content_info
  THEN schema_to_typescript(content_info.schema, string_formats, doc, 1)
  ELSE CASE content_type = <<"text", "plain">> -> T("string")
         [] content_type = <<"application", "json">> -> T("Json")
         [] content_type \in {<<"application", "binary">>,
                              <<"application", "octet-stream">>} -> T("Buffer")
         [] OTHER -> T("unknown")

\* the content types handle_request_body has a serializer for
serializers ==
  {<<"application", "json">>, <<"application", "x-www-form-urlencoded">>,
   <<"text", "plain">>, <<"application", "binary">>,
   <<"application", "octet-stream">>}

wrapped(fn, e) == IF IsThrow(e) THEN e ELSE [op |-> fn, arg |-> e]

\* serializers[content_type](x), x itself for a content type without one
serialize_body(content_type, content_info, x, string_formats, doc) ==
  IF content_type \in {<<"application", "json">>,
                       <<"application", "x-www-form-urlencoded">>}
  THEN wrapped(IF content_type[2] = "json" THEN "JSON.stringify"
               ELSE "URLSearchParams.toString",
               IF "schema" \in DOMAIN content_info
               THEN schema_to_serializer(content_info.schema, doc, string_formats, x)
               ELSE x)
  ELSE x

body_case(content_type, type, packed, body_required, source_param) ==
  IF IsThrow(type) THEN type
  ELSE IF IsThrow(packed) THEN packed
  ELSE [content_type |-> content_type,
        type |-> type,
        pack_expression |->
          IF body_required THEN packed
          ELSE [op |-> "?:", if |-> source_param, then |-> packed,
                else |-> undefined]]

body_cases(list) ==
  IF AnyThrow(list) THEN FirstThrow(list) ELSE [op |-> "cases", of |-> list]

handle_request_body(bodies, body_required, source_param, string_formats, doc) ==
  body_cases([i \in DOMAIN bodies |->
                body_case(bodies[i][1],
                  request_body_to_serializer_input_type(bodies[i][2], bodies[i][1],
                                                        string_formats, doc),
                  serialize_body(bodies[i][1], bodies[i][2], source_param,
                                 string_formats, doc),
                  body_required, source_param)])

\* what handle_request_body prints with console.warn, up to where it stops
handle_request_body_warnings(bodies, result) ==
  IF IsThrow(result) THEN <<>>
  ELSE SelectSeq([i \in DOMAIN bodies |-> bodies[i][1]],
                 LAMBDA content_type : content_type \notin serializers)

ContentTypes ==
  {<<"text", "plain">>, <<"application", "json">>,
   <<"application", "x-www-form-urlencoded">>, <<"application", "octet-stream">>,
   <<"image", "png">>, <<"*", "*">>}

MediaTypes ==
  {<<>>, [schema |-> Ref("Entry")]}

\* Object.entries of a content object: its media types, each key once
RECURSIVE Contents(_)
Contents(n) ==
  IF n = 0 THEN {<<>>}
  ELSE LET shorter == Contents(n - 1)
       IN  shorter \cup
           {Append(c, <<t, m>>) : c \in {d \in shorter : Len(d) = n - 1},
                                  t \in ContentTypes, m \in MediaTypes}

RequestBodies ==
  {[required |-> r, content |-> c] :
     r \in BOOLEAN,
     c \in {d \in Contents(MaxContent) :
              \A i, j \in DOMAIN d : i # j => d[i][1] # d[j][1]}}

Clauses == {<<"text", "*">>, <<"*", "*">>, <<"text", "plain">>,
            <<"application", "json">>}
Targets == {<<"text", "plain">>, <<"text", "html">>, <<"text", "*">>,
            <<"anything", "here">>, <<"application", "json">>, <<"*", "*">>}

InitContent ==
  /\ document = DocFlat
  /\ request_body \in RequestBodies
  /\ clause = None /\ target = None /\ matched = None
  /\ client_body = None /\ server_body = None
  /\ warnings = <<>>
  /\ IdleSchema /\ IdlePointer /\ IdleOperation /\ IdleOther

\* a call of content_type_matches
Match ==
  /\ matched = None
  /\ \E c \in Clauses, t \in Targets :
       /\ clause' = c /\ target' = t
       /\ matched' = [result |-> content_type_matches(c, t)]
  /\ UNCHANGED <<request_body, client_body, server_body, warnings>>
  /\ UNCHANGED <<document, schemaVars, pointerVars, operationVars, otherVars>>

\* format_operation_api_call comes to the request body
ClientCall ==
  /\ client_body = None
  /\ client_body' = handle_request_body(request_body.content,
                      request_body.required = TRUE, Var("args.body.body"),
                      DEFAULT_STRING_FORMATS, document)
  /\ warnings' = warnings \o
       handle_request_body_warnings(request_body.content, client_body')
  /\ UNCHANGED <<request_body, clause, target, matched, server_body>>
  /\ UNCHANGED <<document, schemaVars, pointerVars, operationVars, otherVars>>

\* format_operation_as_server_endpoint_handler comes to the request body
ServerHandler ==
  /\ server_body = None
  /\ server_body' = handle_request_body_payload(request_body,
                      DEFAULT_STRING_FORMATS, document)
  /\ UNCHANGED <<request_body, clause, target, matched, client_body, warnings>>
  /\ UNCHANGED <<document, schemaVars, pointerVars, operationVars, otherVars>>

NextContent == Match \/ ClientCall \/ ServerHandler

SpecContent == InitContent /\ [][NextContent]_vars

\* the clause covers the target: each part of the clause is a wildcard or
\* the part of the target
Covers(clause_, target_) ==
  /\ clause_[1] \in {"*", target_[1]}
  /\ clause_[2] \in {"*", target_[2]}

\* C8: content_type_matches(clause, target) is true exactly when the
\* clause covers the target: `text/*` matches `text/plain`, `*/*` matches
\* `anything/here`, equal types match, `text/plain` does not match `text/*`.
C8_MatchesWhenClauseCovers ==
  matched # None => matched.result = Covers(clause, target)

\* the content types neither compiler knows by name
Unrecognised(content_type) ==
  /\ content_type \notin serializers
  /\ "*" \notin {content_type[1], content_type[2]}

HasUnrecognised(body_) ==
  \E i \in DOMAIN body_.content : Unrecognised(body_.content[i][1])

\* C9: with a request body of an unrecognised content type such as
\* `image/png`, the client call and the server handler are both generated,
\* and both pass the body through as it is.
C9_UnrecognisedIsPassedThrough ==
  HasUnrecognised(request_body) /\ request_body.required =>
    /\ client_body # None =>
          /\ ~IsThrow(client_body)
          /\ \A i \in DOMAIN request_body.content :
               Unrecognised(request_body.content[i][1]) =>
                 client_body.of[i].pack_expression = Var("args.body.body")
    /\ server_body # None =>
          /\ ~IsThrow(server_body)
          /\ \A i \in DOMAIN request_body.content :
               Unrecognised(request_body.content[i][1]) =>
                 server_body.of[i].then.body = Var("raw_body")

----------------------------------------------------------------------------
(* The responses of an operation: the return type of the client call, the  *)
(* switch over the status of the response, and the type of the server's    *)
(* handler.  responses is Object.entries(operation.responses); the         *)
(* operations declare no parameters, request body or response headers.     *)

is_authenticated(security_options) ==
  ~(\/ Len(security_options) = 0
    \/ \E i \in DOMAIN security_options : DOMAIN security_options[i] = {})

\* values that are dropped by filter(x => x !== null)
NotNull(seq) == SelectSeq(seq, LAMBDA x : x # null)

\* the elements of a list of results, or the first exception among them
Results(rs) ==
  IF AnyThrow(rs) THEN FirstThrow(rs) ELSE [op |-> "list", of |-> NotNull(rs)]

json_body_type(type) ==
  IF IsThrow(type) THEN type
  ELSE [content_type |-> "'application/json'", body_type |-> type]

return_body_type(content, string_formats, doc) ==
  Results([i \in DOMAIN content |->
             CASE content[i][1] = "text/plain" ->
                    [content_type |-> "'text/plain'", body_type |-> T("string")]
               [] content[i][1] = "application/json" ->
                    IF "schema" \notin DOMAIN content[i][2] THEN null
                    ELSE json_body_type(schema_to_typescript(content[i][2].schema,
                                                             string_formats, doc, 1))
               [] OTHER ->
                    [content_type |-> "string", body_type |-> T("ArrayBuffer")]])

\* join_fragments(cf` | `, ...) of object types
Union(parts) == [t |-> "|", parts |-> parts]

\* get_return_type: one object type for each body of the response
body_responses(status, body_) ==
  IF IsThrow(body_) THEN body_
  ELSE Union([i \in DOMAIN body_.of |->
                object_to_type([status |-> T(status),
                                content_type |-> T(body_.of[i].content_type),
                                body |-> body_.of[i].body_type])])

\* get_return_type after its tests: the union of the object types of one
\* declared response
response_type(status, response, string_formats, doc) ==
  IF "content" \in DOMAIN response
  THEN body_responses(status,
                      return_body_type(response.content, string_formats, doc))
  ELSE Union(<<object_to_type([status |-> T(status)])>>)

\* what is left of get_return_type once the response is resolved, without
\* the test for the 401 of an authenticated operation
resolved_return_type_keeps_401(status, resolved, security, string_formats, doc) ==
  IF ~resolved.ok THEN Throw(resolved.error)
  ELSE response_type(status, resolved.value, string_formats, doc)

\* What is left of get_return_type once the response is resolved: null
\* for the 401 of an authenticated operation.
resolved_return_type(status, resolved, security, string_formats, doc) ==
  IF ~resolved.ok THEN Throw(resolved.error)
  ELSE IF is_authenticated(security) /\ status = "401" THEN null
  ELSE response_type(status, resolved.value, string_formats, doc)

get_return_type(status, response_, security, string_formats, doc) ==
  IF status = "default" THEN Throw("NotImplemented")
  ELSE resolved_return_type(status, resolve(response_, doc), security,
                            string_formats, doc)

RECURSIVE Flatten(_)
Flatten(seqs) == IF seqs = <<>> THEN <<>> ELSE Head(seqs) \o Flatten(Tail(seqs))

\* a security that falls back to the document's also for an empty list
security_of_or_default(op, default) ==
  IF "security" \in DOMAIN op /\ op.security # <<>> THEN op.security ELSE default

\* the security that holds for an operation
security_of(op, default) ==
  IF "security" \in DOMAIN op THEN op.security ELSE default

\* the function the generated client calls to send the request
request_function(op, default) ==
  [function |-> IF is_authenticated(security_of(op, default))
                THEN "request" ELSE "fetch_or_network_error"]

\* the union of the unions that are left
join_types(types) ==
  IF IsThrow(types) THEN types
  ELSE Union(Flatten([i \in DOMAIN types.of |-> types.of[i].parts]))

\* format_operation_api_call: expected_return_type
client_return_type(op, default, string_formats, doc) ==
  join_types(Results([i \in DOMAIN op.responses |->
                        get_return_type(op.responses[i][1], op.responses[i][2],
                                        security_of(op, default),
                                        string_formats, doc)]))

\* format_response: the return of one media type of the response
response_return(status, mimetype, parsed_) ==
  IF IsThrow(parsed_) THEN parsed_
  ELSE [case |-> mimetype,
        return |-> [status |-> status,
                    content_type |->
                      IF mimetype \in {"application/json", "text/plain",
                                       "application/binary"}
                      THEN mimetype ELSE "content_type_var",
                    body |-> parsed_]]

response_case(status, returns) ==
  IF IsThrow(returns) THEN <<returns>>
  ELSE << [case |-> status, switch |-> returns.of] >>

received(mimetype) == [op |-> "await", of |-> mimetype]

\* one case of the switch over the status of the response, none for the
\* 401 of an authenticated operation
format_response(status, response, security, string_formats, doc) ==
  IF is_authenticated(security) /\ status = "401" THEN <<>>
  ELSE IF "content" \notin DOMAIN response
  THEN << [case |-> status, return |-> [status |-> status]] >>
  ELSE response_case(status,
         Results([i \in DOMAIN response.content |->
                    response_return(status, response.content[i][1],
                      IF response.content[i][1] = "application/json"
                         /\ "schema" \in DOMAIN response.content[i][2]
                      THEN validate_and_parse_body(response.content[i][2].schema,
                             received(response.content[i][1]), string_formats, doc)
                      ELSE received(response.content[i][1]))]))

resolved_response(status, response, security, string_formats, doc) ==
  IF ~response.ok THEN <<Throw(response.error)>>
  ELSE format_response(status, response.value, security, string_formats, doc)

switch_over(cases) ==
  IF AnyThrow(cases) THEN FirstThrow(cases)
  ELSE [op |-> "switch", cases |-> cases, default |-> "APIMalformedError"]

\* format_operation_api_call: the switch over the status
client_switch(op, default, string_formats, doc) ==
  switch_over(Flatten([i \in DOMAIN op.responses |->
                         resolved_response(op.responses[i][1],
                                           resolve(op.responses[i][2], doc),
                                           security_of(op, default),
                                           string_formats, doc)]))

thunk(type) == IF IsThrow(type) THEN type ELSE [t |-> "() =>", returns |-> type]

resolved_type(schema_, string_formats, doc) ==
  IF schema_.ok THEN schema_to_typescript(schema_.value, string_formats, doc, 1)
  ELSE Throw(schema_.error)

\* the fields of the object type of one response: the status and a thunk
\* for each content type
result_fields(status, content, thunks) ==
  IF IsThrow(thunks) THEN thunks
  ELSE object_to_type(
         [name \in {"status"} \cup {content[i][1] : i \in DOMAIN content} |->
            IF name = "status" THEN T(status)
            ELSE thunks.of[CHOOSE i \in DOMAIN content : content[i][1] = name]])

content_of(response) ==
  IF "content" \in DOMAIN response THEN response.content ELSE <<>>

\* The type of one declared response in the handler's result.
handler_result(status, resolved, string_formats, doc) ==
  IF ~resolved.ok THEN Throw(resolved.error)
  ELSE result_fields(status, content_of(resolved.value),
         Results([i \in DOMAIN content_of(resolved.value) |->
                    CASE content_of(resolved.value)[i][1] \in {"text/plain", "text/html"} ->
                           thunk(T("string"))
                      [] content_of(resolved.value)[i][1] = "application/json" ->
                           IF "schema" \in DOMAIN content_of(resolved.value)[i][2]
                           THEN thunk(resolved_type(
                                        resolve(content_of(resolved.value)[i][2].schema, doc),
                                        string_formats, doc))
                           ELSE thunk(T("Json"))
                      [] OTHER -> thunk(T("ArrayBuffer"))]))

handler_type_of(all_results) ==
  IF IsThrow(all_results) THEN all_results
  ELSE [args |-> object_to_type(<<>>), req |-> "express.Request",
        promise |-> Union(all_results.of)]

\* the responses that are not the `default` response
declared_responses(op) == SelectSeq(op.responses, LAMBDA r : r[1] # "default")

format_operation_as_server_endpoint_handler_type(op, string_formats, doc) ==
  handler_type_of(
    Results([i \in DOMAIN declared_responses(op) |->
               handler_result(declared_responses(op)[i][1],
                              resolve(declared_responses(op)[i][2], doc),
                              string_formats, doc)]))

ResponseRef(name) == "$ref" :> <<"#", "components", "responses", name>>

DocResponses ==
  [openapi |-> "3.0.0",
   components |->
     [schemas |-> DocFlat.components.schemas,
      responses |->
        [Unauthorized |-> [description |-> "Unauthorized",
                           content |-> << <<"text/plain", <<>> >> >>]]]]

\* what an operation declares for one status
Responses ==
  {[description |-> "empty"],
   [description |-> "entry",
    content |-> << <<"application/json", [schema |-> Ref("Entry")]>> >>],
   [description |-> "text or picture",
    content |-> << <<"text/plain", <<>> >>, <<"image/png", <<>> >> >>],
   [description |-> "json", content |-> << <<"application/json", <<>> >> >>],
   ResponseRef("Unauthorized"),
   ResponseRef("Missing")}

\* Object.entries puts the statuses in this order
Statuses == <<"200", "401", "404", "default">>

RECURSIVE ResponsesFrom(_)
ResponsesFrom(i) ==
  IF i > Len(Statuses) THEN {<<>>}
  ELSE LET rest == ResponsesFrom(i + 1)
       IN  rest \cup {<< <<Statuses[i], r>> >> \o tail : r \in Responses, tail \in rest}

bearer == [bearer |-> <<>>]

Securities == {<<>>, <<bearer>>, << <<>> >>, <<bearer, <<>> >>}

Operations ==
  {[operationId |-> "getEntry", responses |-> rs] : rs \in ResponsesFrom(1)}
  \cup {[operationId |-> "getEntry", responses |-> rs, security |-> s] :
          rs \in ResponsesFrom(1), s \in Securities}

InitOperation ==
  /\ document = DocResponses
  /\ operation \in Operations
  /\ default_security \in {<<>>, <<bearer>>}
  /\ expected_return_type = None /\ response_cases = None
  /\ request_call = None /\ handler_type = None
  /\ IdleSchema /\ IdlePointer /\ IdleContent /\ IdleOther

\* format_operation_api_call, the part about the responses
FormatApiCall ==
  /\ expected_return_type = None
  /\ expected_return_type' = client_return_type(operation, default_security,
                               DEFAULT_STRING_FORMATS, document)
  /\ response_cases' =
       IF IsThrow(expected_return_type') THEN expected_return_type'
       ELSE client_switch(operation, default_security,
                          DEFAULT_STRING_FORMATS, document)
  /\ request_call' =
       IF IsThrow(expected_return_type') THEN expected_return_type'
       ELSE request_function(operation, default_security)
  /\ UNCHANGED <<operation, default_security, handler_type>>
  /\ UNCHANGED <<document, schemaVars, pointerVars, contentVars, otherVars>>

FormatHandlerType ==
  /\ handler_type = None
  /\ handler_type' = format_operation_as_server_endpoint_handler_type(
                       operation, DEFAULT_STRING_FORMATS, document)
  /\ UNCHANGED <<operation, default_security, expected_return_type,
                 response_cases, request_call>>
  /\ UNCHANGED <<document, schemaVars, pointerVars, contentVars, otherVars>>

NextOperation == FormatApiCall \/ FormatHandlerType

SpecOperation == InitOperation /\ [][NextOperation]_vars

Declares(op, status) == \E i \in DOMAIN op.responses : op.responses[i][1] = status

Authenticated == is_authenticated(security_of(operation, default_security))

\* the statuses of the object types of a union
StatusesOf(union) == {union.parts[i].fields.status.t : i \in DOMAIN union.parts}

Generated(x) == x # None /\ ~IsThrow(x)

\* C10 as stated: for an authenticated operation a declared 401 is in
\* neither the client's return-type union nor the union of the responses
\* of the server's handler type.
C10_No401InEitherUnion ==
  Authenticated /\ Declares(operation, "401") =>
    /\ Generated(expected_return_type) =>
         "401" \notin StatusesOf(expected_return_type)
    /\ Generated(handler_type) => "401" \notin StatusesOf(handler_type.promise)

\* C10, amended: for an authenticated operation a declared 401 is not in
\* the client's return-type union, nor among the cases of its switch; the
\* server's handler type keeps it among its responses.
C10_No401InClientUnion ==
  Authenticated /\ Declares(operation, "401") =>
    /\ Generated(expected_return_type) =>
         "401" \notin StatusesOf(expected_return_type)
    /\ Generated(response_cases) =>
         \A i \in DOMAIN response_cases.cases : response_cases.cases[i].case # "401"
    /\ Generated(handler_type) => "401" \in StatusesOf(handler_type.promise)

C10_Witness ==
  /\ Authenticated /\ Declares(operation, "401") /\ Declares(operation, "200")
  /\ "security" \notin DOMAIN operation
  /\ Generated(expected_return_type) /\ Generated(response_cases)
  /\ Generated(handler_type)
  /\ StatusesOf(expected_return_type) = {"200"}
  /\ StatusesOf(handler_type.promise) = {"200", "401"}

\* the security requirements that hold for the operation
EffectiveSecurity ==
  IF "security" \in DOMAIN operation THEN operation.security ELSE default_security

\* C11: the generated client goes through the authenticating `request`
\* exactly when the effective security requirement list is non-empty and
\* holds no empty requirement object; an empty list of the operation makes
\* it unauthenticated whatever the document's default is.
C11_AuthenticatedExactly ==
  Generated(request_call) =>
    /\ request_call.function = "request" <=>
         /\ EffectiveSecurity # <<>>
         /\ \A i \in DOMAIN EffectiveSecurity : EffectiveSecurity[i] # <<>>
    /\ request_call.function \in {"request", "fetch_or_network_error"}
    /\ "security" \in DOMAIN operation /\ operation.security = <<>> =>
         request_call.function = "fetch_or_network_error"

C11_Witness ==
  /\ Generated(request_call)
  /\ "security" \in DOMAIN operation /\ operation.security = <<>>
  /\ default_security = <<bearer>>
  /\ request_call.function = "fetch_or_network_error"

----------------------------------------------------------------------------
(* URI paths: parse_uri_path of src/src/formatters/util.ts.  A string is   *)
(* the sequence of its characters.                                         *)

programVars == <<schemaVars, pointerVars, contentVars, operationVars>>

IdleProgram == IdleSchema /\ IdlePointer /\ IdleContent /\ IdleOperation

\* the longest path that is tried
MaxPath == 4

\* the character that delimits a template literal
backtick == "BACKTICK"

\* escape, were it to leave the backslashes of the string alone
RECURSIVE escape_leaving_backslashes(_, _)
escape_leaving_backslashes(char, str) ==
  IF str = <<>> THEN <<>>
  ELSE (IF Head(str) = char
        THEN <<"\\", Head(str)>> ELSE <<Head(str)>>)
       \o escape_leaving_backslashes(char, Tail(str))

\* string.split('').flatMap(c => c === char || c === '\\' ? `\\${c}` : c)
RECURSIVE escape(_, _)
escape(char, str) ==
  IF str = <<>> THEN <<>>
  ELSE (IF Head(str) = char \/ Head(str) = "\\"
        THEN <<"\\", Head(str)>> ELSE <<Head(str)>>) \o escape(char, Tail(str))

ts_string(s, delim) == <<delim>> \o escape(delim, s) \o <<delim>>

\* the index of the first c in str at or after from, 0 when there is none
RECURSIVE indexOf(_, _, _)
indexOf(str, c, from) ==
  IF from > Len(str) THEN 0
  ELSE IF str[from] = c THEN from ELSE indexOf(str, c, from + 1)

\* path.matchAll(/{([^}]+)}/g) on the part of path that starts at from
RECURSIVE matchAll(_, _)
matchAll(path, from) ==
  LET open == indexOf(path, "{", from)
      close == indexOf(path, "}", open + 1)
  IN  IF open = 0 \/ close = 0 THEN <<>>
      ELSE IF close = open + 1 THEN matchAll(path, open + 1)
      ELSE <<[index |-> open, length |-> close - open + 1,
              group |-> SubSeq(path, open + 1, close - 1)]>>
           \o matchAll(path, close + 1)

\* the replacements the generator and its tests hand to parse_uri_path:
\* s => `:${s}`, s => `[${s}]` and s => `\${${parameters_object}[${ts_string(s)}]}`
replacement(kind, s) ==
  CASE kind = "colon" -> <<":">> \o s
    [] kind = "brackets" -> <<"[">> \o s \o <<"]">>
    [] kind = "interpolation" ->
         <<"$", "{", "p", "[">> \o ts_string(s, "\"") \o <<"]", "}">>

\* the loop of parse_uri_path over the matches
RECURSIVE parse_uri_loop(_, _, _, _, _, _)
parse_uri_loop(path, kind, matches, substring_start, template, parameters) ==
  IF matches = <<>>
  THEN [template |-> ts_string(template \o SubSeq(path, substring_start, Len(path)), backtick),
        parameters |-> parameters]
  ELSE parse_uri_loop(path, kind, Tail(matches),
         Head(matches).index + Head(matches).length,
         template \o SubSeq(path, substring_start, Head(matches).index - 1)
                  \o replacement(kind, Head(matches).group),
         Append(parameters, Head(matches).group))

parse_uri_path(path, kind) ==
  parse_uri_loop(path, kind, matchAll(path, 1), 1, <<>>, <<>>)

PathCharacters == {"/", "{", "}", "a", "\\", "\"", backtick}

RECURSIVE PathStrings(_)
PathStrings(n) ==
  IF n = 0 THEN {<<>>}
  ELSE {<<>>} \cup {<<c>> \o s : c \in PathCharacters, s \in PathStrings(n - 1)}

\* the path of the unit test, '/entry/{id}/completed'
EntryPath ==
  <<"/", "e", "n", "t", "r", "y", "/", "{", "i", "d", "}", "/",
    "c", "o", "m", "p", "l", "e", "t", "e", "d">>

UriPaths == PathStrings(MaxPath) \cup {EntryPath}

Replacements == {"colon", "brackets", "interpolation"}

InitPath ==
  /\ document = None
  /\ uri_path \in UriPaths
  /\ uri_replacement \in Replacements
  /\ uri_result = None
  /\ IdleProgram /\ IdleParameter /\ IdleLate /\ IdleMore

ParseUriPath ==
  /\ uri_result = None
  /\ uri_result' = parse_uri_path(uri_path, uri_replacement)
  /\ UNCHANGED <<uri_path, uri_replacement>>
  /\ UNCHANGED <<document, programVars, parameterVars, lateVars, moreVars>>

NextPath == ParseUriPath

SpecPath == InitPath /\ [][NextPath]_vars

\* The placeholders of a path, said without scanning it: a `}` closes a
\* placeholder when a `{` with at least one character after it stands
\* between it and the `}` before it, and the placeholder starts at the
\* first such `{`.
Closers(path) == {k \in 1..Len(path) : path[k] = "}"}

Openers(path, k) ==
  {j \in 1..(k - 2) : path[j] = "{" /\ \A c \in Closers(path) : c < j \/ c >= k}

Minimum(set) == CHOOSE x \in set : \A y \in set : x <= y

Placeholders(path) ==
  {[from |-> Minimum(Openers(path, k)), to |-> k] :
     k \in {c \in Closers(path) : Openers(path, c) # {}}}

PlaceholderAt(path, i) == CHOOSE p \in Placeholders(path) : p.from = i

NameOf(path, p) == SubSeq(path, p.from + 1, p.to - 1)

Chars(str) == [i \in DOMAIN str |-> [char |-> str[i]]]

\* what the template has to stand for: the characters of the path, and at
\* each placeholder what the replacement makes of its name
ExpectedAt(path, kind, i) ==
  IF \E p \in Placeholders(path) : p.from = i
  THEN IF kind = "interpolation"
       THEN <<[key |-> NameOf(path, PlaceholderAt(path, i))]>>
       ELSE Chars(replacement(kind, NameOf(path, PlaceholderAt(path, i))))
  ELSE IF \E p \in Placeholders(path) : p.from < i /\ i <= p.to THEN <<>>
  ELSE <<[char |-> path[i]]>>

Expected(path, kind) ==
  Flatten([i \in 1..Len(path) |-> ExpectedAt(path, kind, i)])

ExpectedNames(path) ==
  Flatten([i \in 1..Len(path) |->
            IF \E p \in Placeholders(path) : p.from = i
            THEN <<NameOf(path, PlaceholderAt(path, i))>> ELSE <<>>])

SyntaxError == [syntax_error |-> TRUE]

\* a string literal of TypeScript, read from behind its opening quote
RECURSIVE ReadString(_, _)
ReadString(code, acc) ==
  IF code = <<>> THEN [rest |-> <<>>, closed |-> FALSE, key |-> acc]
  ELSE IF Head(code) = "\"" THEN [rest |-> Tail(code), closed |-> TRUE, key |-> acc]
  ELSE IF Head(code) = "\\" /\ Len(code) >= 2
       THEN ReadString(SubSeq(code, 3, Len(code)), Append(acc, code[2]))
  ELSE ReadString(Tail(code), Append(acc, Head(code)))

\* the body of a template literal as TypeScript reads it: an escaped
\* character stands for itself, ${p["key"]} looks the key up in p
RECURSIVE ReadTemplate(_)
ReadTemplate(text) ==
  IF text = <<>> THEN <<>>
  ELSE IF Head(text) = "\\" /\ Len(text) >= 2
       THEN <<[char |-> text[2]]>> \o ReadTemplate(SubSeq(text, 3, Len(text)))
  ELSE IF Head(text) = backtick THEN <<SyntaxError>>
  ELSE IF Len(text) >= 5 /\ SubSeq(text, 1, 5) = <<"$", "{", "p", "[", "\"">>
       THEN LET lit == ReadString(SubSeq(text, 6, Len(text)), <<>>)
            IN  IF lit.closed /\ Len(lit.rest) >= 2 /\ SubSeq(lit.rest, 1, 2) = <<"]", "}">>
                THEN <<[key |-> lit.key]>>
                     \o ReadTemplate(SubSeq(lit.rest, 3, Len(lit.rest)))
                ELSE <<SyntaxError>>
  ELSE <<[char |-> Head(text)]>> \o ReadTemplate(Tail(text))

Denoted(template) ==
  IF Len(template) >= 2 /\ Head(template) = backtick /\ template[Len(template)] = backtick
  THEN ReadTemplate(SubSeq(template, 2, Len(template) - 1))
  ELSE <<SyntaxError>>

\* C12: parse_uri_path returns the names of all placeholders from left to
\* right, and a template that stands for the path with replacement(name)
\* in the place of each placeholder and every other character kept; for
\* '/entry/{id}/completed' the names are exactly ["id"].
C12_TemplateAndPlaceholders ==
  uri_result # None =>
    /\ uri_result.parameters = ExpectedNames(uri_path)
    /\ Denoted(uri_result.template) = Expected(uri_path, uri_replacement)
    /\ uri_path = EntryPath => uri_result.parameters = << <<"i", "d">> >>

----------------------------------------------------------------------------
(* More about the schema compilers: discriminators and allOf *)

HasMapping(s) ==
  /\ DOMAIN s \cap {"oneOf", "anyOf"} # {}
  /\ "discriminator" \in DOMAIN s
  /\ "mapping" \in DOMAIN s.discriminator

Mapping == schema.discriminator.mapping

\* the code is a switch with one case for each entry of the mapping
OneCasePerEntry(code) ==
  /\ code.op = "switch"
  /\ Len(code.cases) = Cardinality(DOMAIN Mapping)
  /\ {code.cases[i].case : i \in DOMAIN code.cases} = DOMAIN Mapping

\* each reference of the mapping compiles when it is compiled alone
MappedCompile(mode) ==
  \A value \in DOMAIN Mapping :
    ~IsThrow(schema_to_serializer_or_parser("$ref" :> Mapping[value], document,
                                           body, DEFAULT_STRING_FORMATS, mode))

\* the received object has a discriminator value that the mapping leaves out
UnmappedValue ==
  /\ wire.k = "object"
  /\ wire.fields[schema.discriminator.propertyName].s \notin DOMAIN Mapping

\* C13: for a oneOf or anyOf with a discriminator mapping the parser and
\* the serializer are a switch with exactly one case per mapping entry, each
\* for another mapped value; generation fails only when a mapped reference
\* does not compile, never for what the mapping leaves out; at run time a
\* discriminator value without a case ends in the generated throw.
C13_OneCasePerMappingEntry ==
  HasMapping(schema) /\ phase # "loaded" =>
    /\ IsThrow(parser) <=> ~MappedCompile("parser")
    /\ IsThrow(serializer) <=> ~MappedCompile("serializer")
    /\ ~IsThrow(parser) => OneCasePerEntry(parser)
    /\ ~IsThrow(serializer) => OneCasePerEntry(serializer)
    /\ phase = "received" /\ UnmappedValue =>
         /\ parsed = FailedParsing
         /\ Eval(serializer, "validated_body" :> wire) = FailedParsing

C13_Witness ==
  /\ HasMapping(schema) /\ phase = "received"
  /\ DOMAIN Mapping = {"feline", "dog"} /\ Len(parser.cases) = 2
  /\ wire.fields.kind.s = "cat"
  /\ parsed = FailedParsing

\* an allOf with a part that is no object schema once it is resolved
HasNonObjectPart(s, doc) ==
  /\ "$ref" \notin DOMAIN s /\ "allOf" \in DOMAIN s
  /\ \A i \in DOMAIN s.allOf : resolve(s.allOf[i], doc).ok
  /\ \E i \in DOMAIN s.allOf :
       LET part == resolve(s.allOf[i], doc).value
       IN  "type" \notin DOMAIN part \/ part.type # "object"

\* C14: for an allOf with a part that is not an object schema the parser
\* and the serializer compilers fail and return no code.
C14_NonObjectPartFails ==
  HasNonObjectPart(schema, document) /\ phase # "loaded" =>
    IsThrow(parser) /\ IsThrow(serializer)

----------------------------------------------------------------------------
(* Parameters: unpack_parameter_expression and pack_parameter_expression  *)
(* of src/src/formatters/operation.ts.  A parameter is a function of its  *)
(* keys; a raw value is the sequence of its characters.                   *)

\* how many validation keywords a schema of a parameter declares at most
MaxChecks == 2

\* the longest raw value that arrives
MaxRaw == 2

NotImplemented(message) == Throw([class |-> "NotImplemented", message |-> message])

Error(message) == Throw([class |-> "Error", message |-> message])

\* a check of the generated code: `if (!(test)) throw new APIMalformedError(response)`
validator(test, response) == [test |-> test, response |-> response]

\* the checks that every type has: enum and const
common_validators(s, hname) ==
  (IF "enum" \in DOMAIN s
   THEN <<validator([is |-> "includes", of |-> s.enum],
                    [name |-> hname, text |-> " not in ", value |-> s.enum])>>
   ELSE <<>>)
  \o (IF "const" \in DOMAIN s
      THEN <<validator([is |-> "===", to |-> s.const],
                       [name |-> hname, text |-> " !== ", value |-> s.const])>>
      ELSE <<>>)

\* case 'integer', case 'number'
number_validators(s, hname) ==
  (IF "multipleOf" \in DOMAIN s
   THEN <<validator([is |-> "% === 0", to |-> s.multipleOf],
                    [name |-> hname, text |-> " not a multiple of ", value |-> s.multipleOf])>>
   ELSE <<>>)
  \o (IF "maximum" \in DOMAIN s
      THEN <<validator([is |-> "<=", to |-> s.maximum],
                       [name |-> hname, text |-> " > ", value |-> s.maximum])>>
      ELSE <<>>)
  \o (IF "exclusiveMaximum" \in DOMAIN s
      THEN <<validator([is |-> "<", to |-> s.exclusiveMaximum],
                       [name |-> hname, text |-> " => ", value |-> s.exclusiveMaximum])>>
      ELSE <<>>)
  \o (IF "minimum" \in DOMAIN s
      THEN <<validator([is |-> ">=", to |-> s.minimum],
                       [name |-> hname, text |-> " < ", value |-> s.minimum])>>
      ELSE <<>>)
  \o (IF "exclusiveMinimum" \in DOMAIN s
      THEN <<validator([is |-> ">", to |-> s.exclusiveMinimum],
                       [name |-> hname, text |-> " <= ", value |-> s.exclusiveMinimum])>>
      ELSE <<>>)

\* case 'string'
string_validators(s, hname) ==
  (IF "maxLength" \in DOMAIN s
   THEN <<validator([is |-> "length <=", to |-> s.maxLength],
                    [name |-> hname, text |-> " too long"])>>
   ELSE <<>>)
  \o (IF "minLength" \in DOMAIN s
      THEN <<validator([is |-> "length >=", to |-> s.minLength],
                       [name |-> hname, text |-> " too short"])>>
      ELSE <<>>)
  \o (IF "pattern" \in DOMAIN s
      THEN <<validator([is |-> "match", to |-> s.pattern],
                       [name |-> hname, text |-> " failed to match a regex pattern"])>>
      ELSE <<>>)

\* return_type_override once the checks are generated
return_type_override(s, string_formats) ==
  IF s.type = "string" /\ "format" \in DOMAIN s THEN "false"
  ELSE IF "const" \in DOMAIN s THEN "const"
  ELSE IF "enum" \in DOMAIN s THEN "Unlist<enum>"
  ELSE "false"

\* the branch of unpack_parameter_expression for a parameter with a schema
unpack_schema(header_field, header, s, string_formats) ==
  IF "type" \notin DOMAIN s \/ s.type \notin {"integer", "number", "string"}
  THEN NotImplemented("Only basic schemas are implemented for response headers.")
  ELSE IF s.type = "string" /\ "format" \in DOMAIN s
          /\ s.format \notin DOMAIN string_formats
  THEN NotImplemented("Strings with format")
  ELSE [op |-> "unpack",
        of |-> header_field,
        normalized |-> IF s.type \in {"integer", "number"} THEN "Number" ELSE "as is",
        validators |->
          common_validators(s, header.name)
          \o (IF s.type = "string" THEN string_validators(s, header.name)
              ELSE number_validators(s, header.name)),
        return |-> IF s.type = "string" /\ "format" \in DOMAIN s
                   THEN Apply(string_formats[s.format].parse, Var("normalized"))
                   ELSE Var("normalized"),
        as |-> return_type_override(s, string_formats)]

\* the branch for a parameter with a content
unpack_content(header_field, header, content, string_formats, doc) ==
  IF Len(content) # 1 THEN Error("")
  ELSE IF content[1][1] = "text/plain" THEN header_field
  ELSE IF content[1][1] = "application/json"
  THEN [op |-> "JSON.parse", of |-> header_field,
        return |-> IF "schema" \in DOMAIN content[1][2]
                   THEN validate_and_parse_body(content[1][2].schema, Var("content"),
                                                string_formats, doc)
                   ELSE Var("content")]
  ELSE NotImplemented("Headers (or parameters) of this type not implemented.")

\* the branch for a parameter marked x-isFlag
unpack_flag(header) ==
  IF header.in # "query"
  THEN Error("x-isFlag can ONLY appear on query parameters")
  ELSE IF "required" \in DOMAIN header /\ header.required
  THEN Error("x-isFlag can't be required")
  ELSE IF ~("allowEmptyValue" \in DOMAIN header /\ header.allowEmptyValue)
  THEN Error("x-isFlag must allow empty values")
  ELSE [op |-> "true"]

unpack_parameter_expression(header_field, header, string_formats, doc) ==
  IF "x-isFlag" \in DOMAIN header THEN unpack_flag(header)
  ELSE IF "schema" \in DOMAIN header
  THEN IF resolve(header.schema, doc).ok
       THEN unpack_schema(header_field, header, resolve(header.schema, doc).value,
                          string_formats)
       ELSE Error(resolve(header.schema, doc).error)
  ELSE IF "content" \in DOMAIN header
  THEN unpack_content(header_field, header, header.content, string_formats, doc)
  ELSE header_field

\* what unpack_parameter_expression prints with console.warn
unpack_warnings(header) ==
  IF "x-isFlag" \in DOMAIN header
  THEN IF ~IsThrow(unpack_flag(header)) /\ "schema" \in DOMAIN header
       THEN <<"Schema ignored on x-isFlag parameter:">> ELSE <<>>
  ELSE IF "schema" \notin DOMAIN header /\ "content" \notin DOMAIN header
  THEN <<"Found header or parameter with neither content nor s: ">>
  ELSE <<>>

\* handle_simple_parameter; a property or an item is resolved before the call
RECURSIVE handle_simple_parameter(_, _, _, _, _, _)

\* the pairs of handle_object_schema_parameter, of_property[name] being the
\* serializer of the property name
object_pairs(s, value, of_property) ==
  IF \E name \in DOMAIN of_property : IsThrow(of_property[name])
  THEN of_property[CHOOSE name \in DOMAIN of_property : IsThrow(of_property[name])]
  ELSE [op |-> "entries", of |-> value, serializers |-> of_property,
        serializer |-> IF "items" \in DOMAIN s THEN "serializers[key]"
                       ELSE "String"]

handle_object_schema_parameter(s, value, string_formats, doc, depth) ==
  object_pairs(s, value,
    IF "properties" \in DOMAIN s
    THEN [name \in DOMAIN s.properties |->
            IF resolve(s.properties[name], doc).ok
            THEN handle_simple_parameter(resolve(s.properties[name], doc).value,
                                         Var("x"), FALSE, string_formats, doc, depth + 1)
            ELSE Error(resolve(s.properties[name], doc).error)]
    ELSE <<>>)

\* `${part}.join(with)`, or the exception that part is
joined(part, with) ==
  IF IsThrow(part) THEN part ELSE [op |-> "join", of |-> part, with |-> with]

\* `${value}.map(x => ${item})`, or the exception that item is
mapped(value, item) ==
  IF IsThrow(item) THEN item ELSE Map(value, Var("x"), item)

handle_simple_parameter(s, value, explode, string_formats, doc, depth) ==
  IF depth > MaxStack THEN Throw("RangeError")
  ELSE IF "type" \notin DOMAIN s THEN NotImplemented("Unknown type in simple schema")
  ELSE CASE s.type = "string" ->
              IF "format" \notin DOMAIN s THEN value
              ELSE IF s.format \notin DOMAIN string_formats
              THEN NotImplemented("Strings with format")
              ELSE Apply(string_formats[s.format].serialize, value)
         [] s.type \in {"number", "integer"} -> [op |-> "String", of |-> value]
         [] s.type = "null" -> [op |-> "literal", text |-> ""]
         [] s.type = "object" ->
              joined(handle_object_schema_parameter(s, value, string_formats,
                                                    doc, depth),
                     IF explode THEN "=" ELSE ",")
         [] s.type = "array" ->
              IF "items" \in DOMAIN s
              THEN joined(mapped(value,
                            IF resolve(s.items, doc).ok
                            THEN handle_simple_parameter(
                                   resolve(s.items, doc).value, Var("x"), FALSE,
                                   string_formats, doc, depth + 1)
                            ELSE Error(resolve(s.items, doc).error)),
                          ",")
              ELSE [op |-> "join",
                    of |-> Map(value, Var("x"), [op |-> "String", of |-> Var("x")]),
                    with |-> ","]
         [] s.type = "boolean" ->
              [op |-> "?:", test |-> value, then |-> "true", else |-> ""]
         [] OTHER -> NotImplemented("Unknown type in simple schema")

Pair(key, value) == [op |-> "pairs", of |-> <<[key |-> key, value |-> value]>>]

\* `[[${key}, ${value}]]`, or the exception that value is
paired(key, value) == IF IsThrow(value) THEN value ELSE Pair(key, value)

handle_form_parameter(s, key, value, explode, string_formats, doc) ==
  IF "type" \notin DOMAIN s THEN Pair(key, [op |-> "literal", text |-> ""])
  ELSE CASE s.type = "string" -> Pair(key, value)
         [] s.type \in {"number", "integer"} ->
              Pair(key, [op |-> "String", of |-> value])
         [] s.type = "array" ->
              IF explode
              THEN Map(value, Var("v"), [op |-> "pair", key |-> key, value |-> Var("v")])
              ELSE Pair(key, [op |-> "join", of |-> value, with |-> ","])
         [] s.type = "object" ->
              IF explode
              THEN handle_object_schema_parameter(s, value, string_formats, doc, 1)
              ELSE paired(key, joined(handle_object_schema_parameter(
                                        s, value, string_formats, doc, 1), ","))
         [] s.type = "null" -> NotImplemented("Null form parameters")
         [] s.type = "boolean" -> Pair(key, [op |-> "literal", text |-> key])
         [] OTHER -> Error("Encountered s of unknown type")

\* a hand-over of the generator's run that never comes back
Hang == [op |-> "hang"]

\* while ('$ref' in schema) schema = resolve(schema, document)
RECURSIVE resolve_schema(_, _, _)
resolve_schema(s, doc, turns) ==
  IF "$ref" \notin DOMAIN s THEN Found(s)
  ELSE IF turns > MaxStack THEN Found(Hang)
  ELSE IF resolve(s, doc).ok
  THEN resolve_schema(resolve(s, doc).value, doc, turns + 1)
  ELSE resolve(s, doc)

\* a style that is simple whenever it is not declared to be simple or form
style_of_always_simple(param) ==
  IF "style" \in DOMAIN param /\ param.style \in {"simple", "form"}
  THEN param.style ELSE "simple"

\* parameter.style ?? { query: 'form', path: 'simple', header: 'simple', cookie: 'form' }[parameter.in]
style_of(param) ==
  IF "style" \in DOMAIN param THEN param.style
  ELSE IF param.in \in {"query", "cookie"} THEN "form" ELSE "simple"

\* the switch over the style
pack_styled(style, s, key, value, explode, string_formats, doc) ==
  CASE style = "simple" ->
         paired(key, handle_simple_parameter(s, value, explode,
                                             string_formats, doc, 1))
    [] style = "form" ->
         handle_form_parameter(s, key, value, explode, string_formats, doc)
    [] style \in {"deepObject", "matrix", "label", "spaceDelimited", "pipeDelimited"} ->
         NotImplemented("Parameter style")
    [] OTHER -> NotImplemented("Unknown style in param")

\* the branch of pack_parameter_expression for a param with a schema
pack_schema(param_object, param, style, string_formats, doc) ==
  IF "allowReserved" \in DOMAIN param /\ param.allowReserved
  THEN NotImplemented("allowReserved on parameters objects")
  ELSE IF ~resolve_schema(param.schema, doc, 1).ok
  THEN Error(resolve_schema(param.schema, doc, 1).error)
  ELSE IF resolve_schema(param.schema, doc, 1).value = Hang THEN Hang
  ELSE pack_styled(style, resolve_schema(param.schema, doc, 1).value,
                   param.name, Index(param_object, param.name),
                   IF "explode" \in DOMAIN param THEN param.explode
                   ELSE style = "form",
                   string_formats, doc)

pack_parameter_expression(param_object, param, string_formats, doc) ==
  IF "content" \in DOMAIN param
  THEN IF Len(param.content) # 1
       THEN Error("If 'content' is present on a param, it's length MUST be exactly 1")
       ELSE IF param.content[1][1] = "text/plain"
       THEN Pair(param.name, Index(param_object, param.name))
       ELSE IF param.content[1][1] = "application/json"
       THEN Pair(param.name,
                 [op |-> "JSON.stringify", of |-> Index(param_object, param.name)])
       ELSE NotImplemented("Content types other than text/plain and application/json")
  ELSE IF "schema" \in DOMAIN param
  THEN pack_schema(param_object, param, style_of(param), string_formats, doc)
  ELSE Error("Content or Schema required in param")

\* a raw value as the generated code normalizes it
normalize(code, raw) ==
  IF code.normalized = "Number" THEN Number(raw) ELSE [str |-> raw]

\* new RegExp(pattern) matched against a string, for the patterns of the
\* schemas below: '^a' and '^[01]+$'
match(str, pattern) ==
  CASE pattern = "^a" -> str # <<>> /\ Head(str) = "a"
    [] pattern = "^[01]+$" -> str # <<>> /\ \A i \in DOMAIN str : str[i] \in {"0", "1"}

\* the test of a validator on the normalized value; every comparison with
\* NaN is false
holds(test, normalized) ==
  CASE test.is = "includes" -> normalized \in test.of
    [] test.is = "===" -> normalized = test.to
    [] test.is = "length <=" -> Len(normalized.str) <= test.to
    [] test.is = "length >=" -> Len(normalized.str) >= test.to
    [] test.is = "match" -> match(normalized.str, test.to)
    [] OTHER ->
         /\ ~isNaN(normalized)
         /\ CASE test.is = "% === 0" -> normalized.n % test.to = 0
              [] test.is = "<=" -> normalized.n <= test.to
              [] test.is = "<" -> normalized.n < test.to
              [] test.is = ">=" -> normalized.n >= test.to
              [] test.is = ">" -> normalized.n > test.to

\* new APIMalformedError(message) of the generated common library
APIMalformedError(message) ==
  [k |-> "error", name |-> "APIMalformedError", message |-> message]

\* the value of the normalized param, as the expressions of the
\* generated code take their values
unpacked_value(code, normalized) ==
  IF code.normalized = "Number" THEN [k |-> "number", value |-> normalized]
  ELSE Eval(code.return, "normalized" :> Str(normalized.str, "plain"))

\* the generated expression at run time, on the raw value of the param
run_unpack(code, raw) ==
  IF code.op = "true" THEN [k |-> "boolean", b |-> TRUE]
  ELSE IF code.op = "var" THEN Str(raw, "plain")
  ELSE IF code.op # "unpack" THEN RuntimeError
  ELSE IF \E i \in DOMAIN code.validators :
            ~holds(code.validators[i].test, normalize(code, raw))
  THEN APIMalformedError(
         code.validators[
           CHOOSE i \in DOMAIN code.validators :
             /\ ~holds(code.validators[i].test, normalize(code, raw))
             /\ \A j \in 1..(i - 1) :
                  holds(code.validators[j].test, normalize(code, raw))].response)
  ELSE unpacked_value(code, normalize(code, raw))

\* the document the parameters belong to: the flat one and a schema that
\* is a reference to itself
DocParameters ==
  [openapi |-> "3.0.0",
   components |->
     [schemas |-> DocFlat.components.schemas @@ [Alias |-> Ref("Alias")]]]

Locations == {"query", "header", "path", "cookie"}

Styles ==
  {"simple", "form", "matrix", "label", "deepObject", "spaceDelimited", "pipeDelimited"}

\* a key that is absent or has one of the values
Optional(key, values) == {<<>>} \cup {key :> v : v \in values}

FlagParameters ==
  {[name |-> "verbose", in |-> l] @@ ("x-isFlag" :> TRUE) @@ r @@ a @@ s :
     l \in Locations, r \in Optional("required", BOOLEAN),
     a \in Optional("allowEmptyValue", BOOLEAN),
     s \in Optional("schema", {[type |-> "boolean"]})}

ParameterSchemas ==
  {<<>>, [type |-> "string"], [type |-> "string", format |-> "date-time"],
   [type |-> "integer"], [type |-> "boolean"], [type |-> "null"],
   [type |-> "array", items |-> Ref("Stamp")],
   [type |-> "object", properties |-> [a |-> [type |-> "number"]]],
   Ref("Stamp"), Ref("Alias"), Ref("Missing")}

StyledParameters ==
  {[name |-> "filter", in |-> l, schema |-> s] @@ st @@ ex @@ ar :
     l \in Locations, s \in ParameterSchemas, st \in Optional("style", Styles),
     ex \in Optional("explode", BOOLEAN), ar \in Optional("allowReserved", BOOLEAN)}

NumberChecks ==
  {"enum" :> {[n |-> 1], [n |-> 10]}, "const" :> [n |-> 1], "multipleOf" :> 10,
   "maximum" :> 1, "exclusiveMaximum" :> 10, "minimum" :> 1, "exclusiveMinimum" :> 0}

StringChecks ==
  {"enum" :> {[str |-> <<"a">>], [str |-> <<"a", "a">>]}, "const" :> [str |-> <<"a">>],
   "maxLength" :> 1, "minLength" :> 1, "pattern" :> "^a", "pattern" :> "^[01]+$",
   "format" :> "date-time", "format" :> "email"}

\* the keywords of a set of checks in one schema
RECURSIVE Keywords(_)
Keywords(checks) ==
  IF checks = {} THEN <<>>
  ELSE LET check == CHOOSE c \in checks : TRUE
       IN  check @@ Keywords(checks \ {check})

Checked(type, checks) ==
  {[type |-> type] @@ Keywords(cs) :
     cs \in {c \in SUBSET checks : Cardinality(c) <= MaxChecks}}

ValidatedParameters ==
  {[name |-> "limit", in |-> l, schema |-> s] :
     l \in Locations,
     s \in Checked("integer", NumberChecks) \cup Checked("number", NumberChecks)
           \cup Checked("string", StringChecks)}

ContentParameters ==
  {[name |-> "payload", in |-> l, content |-> c] :
     l \in Locations,
     c \in {<<>>, << <<"text/plain", <<>> >> >>, << <<"application/json", <<>> >> >>,
            << <<"application/json", [schema |-> Ref("Entry")]>> >>,
            << <<"image/png", <<>> >> >>,
            << <<"text/plain", <<>> >>, <<"application/json", <<>> >> >>}}

BareParameters == {[name |-> "bare", in |-> l] : l \in Locations}

Parameters ==
  FlagParameters \cup StyledParameters \cup ValidatedParameters
  \cup ContentParameters \cup BareParameters

RECURSIVE RawStrings(_)
RawStrings(n) ==
  IF n = 0 THEN {<<>>}
  ELSE {<<>>} \cup {<<c>> \o s : c \in {"0", "1", "a"}, s \in RawStrings(n - 1)}

InitParameter ==
  /\ document = DocParameters
  /\ parameter \in Parameters
  /\ unpack_expression = None /\ pack_expression = None
  /\ raw_value = None /\ unpacked = None
  /\ parameter_warnings = <<>>
  /\ IdleProgram /\ IdlePath /\ IdleLate /\ IdleMore

\* the server's handler is generated: unpack_parameter_expression
Unpack ==
  /\ unpack_expression = None
  /\ unpack_expression' = unpack_parameter_expression(Var("raw"), parameter,
                            DEFAULT_STRING_FORMATS, document)
  /\ parameter_warnings' = parameter_warnings \o unpack_warnings(parameter)
  /\ UNCHANGED <<parameter, pack_expression, raw_value, unpacked>>
  /\ UNCHANGED <<document, programVars, pathVars, lateVars, moreVars>>

\* the client's call is generated: pack_parameter_expression
Pack ==
  /\ pack_expression = None
  /\ pack_expression' = pack_parameter_expression(Var("params"), parameter,
                          DEFAULT_STRING_FORMATS, document)
  /\ UNCHANGED <<parameter, unpack_expression, raw_value, unpacked, parameter_warnings>>
  /\ UNCHANGED <<document, programVars, pathVars, lateVars, moreVars>>

\* a request arrives and the generated expression unpacks the parameter
Arrive ==
  /\ unpack_expression # None /\ ~IsThrow(unpack_expression)
  /\ unpack_expression.op \in {"unpack", "true", "var"}
  /\ raw_value = None
  /\ \E raw \in RawStrings(MaxRaw) :
       /\ raw_value' = [str |-> raw]
       /\ unpacked' = run_unpack(unpack_expression, raw)
  /\ UNCHANGED <<parameter, unpack_expression, pack_expression, parameter_warnings>>
  /\ UNCHANGED <<document, programVars, pathVars, lateVars, moreVars>>

NextParameter == Unpack \/ Pack \/ Arrive

SpecParameter == InitParameter /\ [][NextParameter]_vars

\* the four conditions of a flag
FlagConditions ==
  /\ parameter.in = "query"
  /\ ~("required" \in DOMAIN parameter /\ parameter.required)
  /\ "allowEmptyValue" \in DOMAIN parameter /\ parameter.allowEmptyValue
  /\ "schema" \notin DOMAIN parameter

\* C15: a parameter marked x-isFlag is accepted only when it is a query
\* parameter, is not required, allows empty values and has no schema; when
\* one of the four does not hold, generation fails.
C15_FlagPreconditions ==
  "x-isFlag" \in DOMAIN parameter /\ unpack_expression # None =>
    (IsThrow(unpack_expression) <=> ~FlagConditions)

SchemaTyped == "schema" \in DOMAIN parameter /\ "content" \notin DOMAIN parameter

EffectiveStyle ==
  IF "style" \in DOMAIN parameter THEN parameter.style
  ELSE CASE parameter.in = "query" -> "form"
         [] parameter.in = "cookie" -> "form"
         [] parameter.in = "path" -> "simple"
         [] parameter.in = "header" -> "simple"

Unimplemented == {"matrix", "label", "deepObject", "spaceDelimited", "pipeDelimited"}

ReturnsCode(x) == x # None /\ ~IsThrow(x) /\ x # Hang

FailsAs(x, class) == IsThrow(x) /\ x.error.class = class

\* the references from the schema of the parameter on, as far as they resolve
RECURSIVE Chain(_, _)
Chain(s, seen) ==
  IF "$ref" \notin DOMAIN s THEN "schema"
  ELSE IF s \in seen THEN "cycle"
  ELSE IF ~resolve(s, document).ok THEN "unresolved"
  ELSE Chain(resolve(s, document).value, seen \cup {s})

AllowReserved == "allowReserved" \in DOMAIN parameter /\ parameter.allowReserved

Declared == resolve(parameter.schema, document).value

Value == IF Declared.type = "string" THEN raw_value ELSE Number(raw_value.str)

Passes ==
  /\ "enum" \in DOMAIN Declared => Value \in Declared.enum
  /\ "const" \in DOMAIN Declared => Value = Declared.const
  /\ Declared.type = "string" =>
       /\ "maxLength" \in DOMAIN Declared => Len(Value.str) <= Declared.maxLength
       /\ "minLength" \in DOMAIN Declared => Len(Value.str) >= Declared.minLength
       /\ "pattern" \in DOMAIN Declared => match(Value.str, Declared.pattern)
  /\ Declared.type # "string" =>
       /\ "multipleOf" \in DOMAIN Declared =>
            ~isNaN(Value) /\ \E q \in 0..Value.n : q * Declared.multipleOf = Value.n
       /\ "maximum" \in DOMAIN Declared => ~isNaN(Value) /\ Value.n <= Declared.maximum
       /\ "exclusiveMaximum" \in DOMAIN Declared =>
            ~isNaN(Value) /\ Value.n < Declared.exclusiveMaximum
       /\ "minimum" \in DOMAIN Declared => ~isNaN(Value) /\ Value.n >= Declared.minimum
       /\ "exclusiveMinimum" \in DOMAIN Declared =>
            ~isNaN(Value) /\ Value.n > Declared.exclusiveMinimum

Validated ==
  /\ unpacked # None /\ unpack_expression.op = "unpack"

\* C17: the generated expression yields a value only when the raw value
\* passes every check that the schema declares; a failing check raises a
\* malformed-data error that carries the name of the parameter and its
\* location.
C17_ChecksGuardTheValue ==
  Validated =>
    /\ unpacked.k # "error" => Passes
    /\ ~Passes =>
         /\ unpacked.k = "error" /\ unpacked.name = "APIMalformedError"
         /\ unpacked.message.name = parameter.name
         /\ "location" \in DOMAIN unpacked /\ unpacked.location = parameter.in

----------------------------------------------------------------------------
(***************************************************************************)
(* The generators over the path items.  A path item is an object from      *)
(* method to Operation; every generator walks the methods in the order of  *)
(* `operations`.  A code fragment is a record; a fragment that the         *)
(* template cf builds from ${x} holds the string that JavaScript makes of  *)
(* x, "undefined" for a property that is not there.                        *)
(***************************************************************************)
operations == <<"get", "put", "post", "delete", "options", "head", "patch",
                "trace">>

\* `${o[key]}` inside a template
interpolate(o, key) == IF key \in DOMAIN o THEN o[key] ELSE "undefined"

\* !operation.operationId
no_operationId(op) == "operationId" \notin DOMAIN op \/ op.operationId = ""

\* a list of code fragments that a generator returned
Fragments(list) == [fragments |-> list]

\* the fragments of every method of a path item, or the first throw
RECURSIVE over_operations(_, _, _)
over_operations(item, i, acc) ==
  IF i > Len(operations) THEN Fragments(acc)
  ELSE IF operations[i] \notin DOMAIN item
         THEN over_operations(item, i + 1, acc)
  ELSE IF IsThrow(item[operations[i]]) THEN item[operations[i]]
  ELSE over_operations(item, i + 1, Append(acc, item[operations[i]]))

\* the declaration `export async function ${args.operation.operationId}`
format_operation_api_call(op, an_operation, path) ==
  [fragment |-> "export async function",
   name |-> interpolate(an_operation, "operationId"),
   method |-> op, path |-> path]

format_path_item_as_api_call(path, item) ==
  over_operations(
    [op \in DOMAIN item |-> format_operation_api_call(op, item[op], path)],
    1, <<>>)

handler_type_without_id(an_operation) ==
  Throw([class |-> "Error",
         message |-> "Can't format operation without operationId as server handler type"])

format_path_item_as_server_handler_types(path, item) ==
  over_operations(
    [op \in DOMAIN item |->
       IF no_operationId(item[op]) THEN handler_type_without_id(item[op])
       ELSE [fragment |-> "export type", name |-> item[op].operationId]],
    1, <<>>)

\* function handle_${args.operation.operationId}(handler: types.${...})
format_operation_as_server_endpoint_handler(an_operation) ==
  [fragment |-> "function",
   name |-> <<"handle_", interpolate(an_operation, "operationId")>>,
   handler |-> interpolate(an_operation, "operationId")]

format_path_item_as_server_endpoint_handlers(path, item) ==
  over_operations(
    [op \in DOMAIN item |->
       format_operation_as_server_endpoint_handler(item[op])],
    1, <<>>)

router_without_id ==
  Throw([class |-> "Error",
         message |-> "Can't include operation without operationId in express router declaration"])

\* the type of the handlers argument of setup_router
router_type(path, item) ==
  over_operations(
    [op \in DOMAIN item |->
       IF no_operationId(item[op]) THEN router_without_id
       ELSE [fragment |-> "type", name |-> op,
             type |-> item[op].operationId]],
    1, <<>>)

\* router.${op}(fixed_path, handle_${opid}(...))
router_routes(path, item) ==
  over_operations(
    [op \in DOMAIN item |->
       IF no_operationId(item[op]) THEN router_without_id
       ELSE [fragment |-> "route", method |-> op,
             path |-> parse_uri_path(path, "colon"),
             name |-> <<"handle_", item[op].operationId>>]],
    1, <<>>)

\* the results for every path in order, flattened, or the first throw
RECURSIVE over_paths(_, _, _)
over_paths(results, i, acc) ==
  IF i > Len(results) THEN Fragments(acc)
  ELSE IF IsThrow(results[i]) THEN results[i]
  ELSE over_paths(results, i + 1, acc \o results[i].fragments)

then(first, second) ==
  IF IsThrow(first) THEN first
  ELSE IF IsThrow(second) THEN second
  ELSE Fragments(first.fragments \o second.fragments)

format_path_item_setup_server_router(entries) ==
  then(over_paths([i \in 1..Len(entries) |->
                     router_type(entries[i].path, entries[i].item)], 1, <<>>),
       over_paths([i \in 1..Len(entries) |->
                     router_routes(entries[i].path, entries[i].item)], 1, <<>>))

\* the documents: one or two paths, each with a get, a put or both, each
\* operation with an operationId, with an empty one or with none
OperationIds == {"getEntry", "putEntry", ""}

NamedOperations ==
  {[responses |-> "Responses"] @@ id : id \in Optional("operationId", OperationIds)}

PathItems ==
  UNION {[methods -> NamedOperations] : methods \in (SUBSET {"get", "put"}) \ {{}}}

PathNames == <<<<"/", "a">>, <<"/", "{", "a", "}">>>>

PathEntries ==
  {<<[path |-> PathNames[1], item |-> i]>> : i \in PathItems}
  \cup {<<[path |-> PathNames[1], item |-> i], [path |-> PathNames[2], item |-> j]>> :
          i \in PathItems, j \in PathItems}

InitRouter ==
  /\ document = None
  /\ IdleProgram /\ IdlePath /\ IdleParameter /\ IdleMain /\ IdleGensym
  /\ IdleMore
  /\ paths \in {[entries |-> e] : e \in PathEntries}
  /\ api_calls = None /\ handler_types = None /\ endpoint_handlers = None
  /\ router_setup = None

FormatApiCalls ==
  /\ paths # None /\ api_calls = None
  /\ api_calls' = 
       over_paths([i \in 1..Len(paths.entries) |->
                     format_path_item_as_api_call(paths.entries[i].path, paths.entries[i].item)], 1, <<>>)
  /\ UNCHANGED <<document, programVars, pathVars, parameterVars, paths,
                 handler_types, endpoint_handlers, router_setup, mainVars,
                 gensymVars, moreVars>>

FormatHandlerTypes ==
  /\ paths # None /\ handler_types = None
  /\ handler_types' = 
       over_paths([i \in 1..Len(paths.entries) |->
                     format_path_item_as_server_handler_types(paths.entries[i].path, paths.entries[i].item)], 1, <<>>)
  /\ UNCHANGED <<document, programVars, pathVars, parameterVars, paths,
                 api_calls, endpoint_handlers, router_setup, mainVars,
                 gensymVars, moreVars>>

FormatEndpointHandlers ==
  /\ paths # None /\ endpoint_handlers = None
  /\ endpoint_handlers' = 
       over_paths([i \in 1..Len(paths.entries) |->
                     format_path_item_as_server_endpoint_handlers(paths.entries[i].path, paths.entries[i].item)], 1, <<>>)
  /\ UNCHANGED <<document, programVars, pathVars, parameterVars, paths,
                 api_calls, handler_types, router_setup, mainVars,
                 gensymVars, moreVars>>

SetupServerRouter ==
  /\ paths # None /\ router_setup = None
  /\ router_setup' = format_path_item_setup_server_router(paths.entries)
  /\ UNCHANGED <<document, programVars, pathVars, parameterVars, paths,
                 api_calls, handler_types, endpoint_handlers, mainVars,
                 gensymVars, moreVars>>

NextRouter ==
  \/ FormatApiCalls
  \/ FormatHandlerTypes
  \/ FormatEndpointHandlers
  \/ SetupServerRouter

SpecRouter == InitRouter /\ [][NextRouter]_vars

\* an operation of the document has no operationId
LacksOperationId ==
  \E i \in 1..Len(paths.entries) : \E op \in DOMAIN paths.entries[i].item :
    "operationId" \notin DOMAIN paths.entries[i].item[op]

\* C18: an operation without operationId makes generation fail in the
\* client calls, the server handler types, the server endpoint handlers and
\* the router setup.
C18_MissingOperationIdFails ==
  paths # None /\ LacksOperationId =>
    /\ api_calls # None => IsThrow(api_calls)
    /\ handler_types # None => IsThrow(handler_types)
    /\ endpoint_handlers # None => IsThrow(endpoint_handlers)
    /\ router_setup # None => IsThrow(router_setup)

----------------------------------------------------------------------------
(***************************************************************************)
(* A run of the generator: main.  It builds the content of one output file *)
(* after the other and hands each to generate, which writes the file.  A   *)
(* content is the argument of the call, so it is built before generate is  *)
(* entered; main has no try, and an error thrown while a content is built  *)
(* leaves main at once as the rejection of its promise.                    *)
(***************************************************************************)
\* generate: writes args.output_path
generate(output_path, written) == Append(written, output_path)

\* await generate({content: ..., output_path: ...}), as a step of main
\* that lets a failed content pass as an empty one
main_step_with_empty_content(content, output_path, written) ==
  [files |-> generate(output_path, written), rejected |-> FALSE]

\* await generate({content: ..., output_path: ...}), as a step of main
main_step(content, output_path, written) ==
  IF IsThrow(content) THEN [files |-> written, rejected |-> TRUE]
  ELSE [files |-> generate(output_path, written), rejected |-> FALSE]

schemas_of(doc) ==
  IF "components" \in DOMAIN doc /\ "schemas" \in DOMAIN doc.components
  THEN doc.components.schemas ELSE <<>>

\* format_schema(name, resolve(schema, document), string_formats, document)
format_schema(name, s, doc) ==
  IF ~resolve(s, doc).ok
  THEN Throw([class |-> "Error", message |-> resolve(s, doc).error])
  ELSE schema_to_typescript(resolve(s, doc).value, DEFAULT_STRING_FORMATS, doc, 1)

any_throw(results) ==
  IF \E k \in DOMAIN results : IsThrow(results[k])
  THEN results[CHOOSE k \in DOMAIN results : IsThrow(results[k])]
  ELSE Fragments(<<>>)

types_content(doc) ==
  any_throw([name \in DOMAIN schemas_of(doc) |->
               format_schema(name, schemas_of(doc)[name], doc)])

\* format_type_validator(..., resolve(schema, document))
validators_content(doc) ==
  any_throw([name \in DOMAIN schemas_of(doc) |->
               IF resolve(schemas_of(doc)[name], doc).ok THEN Fragments(<<>>)
               ELSE Throw([class |-> "Error",
                           message |-> resolve(schemas_of(doc)[name], doc).error])])

calls_content(entries) ==
  over_paths([i \in 1..Len(entries) |->
                format_path_item_as_api_call(entries[i].path, entries[i].item)],
             1, <<>>)

server_handler_types_content(entries) ==
  over_paths([i \in 1..Len(entries) |->
                format_path_item_as_server_handler_types(entries[i].path,
                                                         entries[i].item)],
             1, <<>>)

server_router_content(entries) ==
  then(format_path_item_setup_server_router(entries),
       over_paths([i \in 1..Len(entries) |->
                     format_path_item_as_server_endpoint_handlers(
                       entries[i].path, entries[i].item)], 1, <<>>))

\* the files of the standalone block, in the order main writes them
RECURSIVE standalone_files(_, _, _)
standalone_files(standalone, keys, written) ==
  IF keys = <<>> THEN written
  ELSE standalone_files(standalone, Tail(keys),
         IF Head(keys) \in standalone THEN Append(written, Head(keys))
         ELSE written)

write_generator_data(written) ==
  written \o <<".yapigen/FILES", ".yapigen/info.yaml", ".yapigen/.gitignore">>

\* the configurations: none (parse_command_line returned null), and with
\* and without a standalone block
Configurations ==
  {null} \cup {[input |-> "openapi.yaml", standalone |-> files_] :
                 files_ \in {{}, {"package"}, {"eslint", "package", "tsconfig"}}}

DocDangling == Components([Alias |-> Ref("Missing")])

MainDocuments == {DocFlat, DocParameters, DocDangling}

MainPaths == {[entries |-> e] : e \in {x \in PathEntries : Len(x) = 1}}

InitMain ==
  /\ IdleProgram /\ IdlePath /\ IdleParameter /\ IdleGensym /\ IdleMore
  /\ api_calls = None /\ handler_types = None /\ endpoint_handlers = None
  /\ router_setup = None
  /\ configuration \in Configurations
  /\ document \in MainDocuments
  /\ paths \in MainPaths
  /\ main_pc = "parse_command_line"
  /\ files = <<>>
  /\ failed_with = None
  /\ exit = None

mainUnchanged == <<document, programVars, pathVars, parameterVars,
                   routerVars, gensymVars, moreVars, configuration>>

\* const configuration = await parse_command_line(); if (!configuration) return 1
ParseCommandLine ==
  /\ main_pc = "parse_command_line"
  /\ IF configuration = null
     THEN main_pc' = "done" /\ exit' = [returned |-> 1]
     ELSE main_pc' = "common" /\ exit' = exit
  /\ UNCHANGED <<mainUnchanged, files, failed_with>>

\* one await generate(...) of main, and where main goes on
AwaitGenerate(at, content, output_path, next) ==
  /\ main_pc = at
  /\ files' = main_step(content, output_path, files).files
  /\ IF main_step(content, output_path, files).rejected
     THEN /\ main_pc' = "done"
          /\ exit' = [rejected |-> content.error]
          /\ failed_with' = [files |-> files, at |-> at]
     ELSE /\ main_pc' = next
          /\ UNCHANGED <<exit, failed_with>>
  /\ UNCHANGED mainUnchanged

GenerateCommon ==
  AwaitGenerate("common", Fragments(<<>>), "common", "types")

GenerateTypes ==
  AwaitGenerate("types", types_content(document), "types", "validators")

GenerateValidators ==
  AwaitGenerate("validators", validators_content(document), "validators", "calls")

GenerateCalls ==
  AwaitGenerate("calls", calls_content(paths.entries), "calls",
           "server_handler_types")

GenerateServerHandlerTypes ==
  AwaitGenerate("server_handler_types", server_handler_types_content(paths.entries),
           "server_handler_types", "server_router")

GenerateServerRouter ==
  AwaitGenerate("server_router", server_router_content(paths.entries),
           "server_router", "standalone")

WriteStandalone ==
  /\ main_pc = "standalone"
  /\ files' = standalone_files(configuration.standalone,
                               <<"eslint", "package", "tsconfig">>, files)
  /\ main_pc' = "write_generator_data"
  /\ UNCHANGED <<mainUnchanged, exit, failed_with>>

\* await write_generator_data('.yapigen', ...); return 0
WriteGeneratorData ==
  /\ main_pc = "write_generator_data"
  /\ files' = write_generator_data(files)
  /\ main_pc' = "done"
  /\ exit' = [returned |-> 0]
  /\ UNCHANGED <<mainUnchanged, failed_with>>

NextMain ==
  \/ ParseCommandLine
  \/ GenerateCommon
  \/ GenerateTypes
  \/ GenerateValidators
  \/ GenerateCalls
  \/ GenerateServerHandlerTypes
  \/ GenerateServerRouter
  \/ WriteStandalone
  \/ WriteGeneratorData

SpecMain == InitMain /\ [][NextMain]_vars

\* the content of some output file of the run fails
SomeContentFails ==
  \/ IsThrow(types_content(document))
  \/ IsThrow(validators_content(document))
  \/ IsThrow(calls_content(paths.entries))
  \/ IsThrow(server_handler_types_content(paths.entries))
  \/ IsThrow(server_router_content(paths.entries))

\* C19: when a content fails while it is built, the run does not return 0
\* and no file is written from then on: the files stay the ones there were
\* at the failure; and a run whose input has a failing content never
\* returns 0.
C19_FailureAbortsTheRun ==
  /\ failed_with # None =>
       /\ exit # None /\ "rejected" \in DOMAIN exit
       /\ files = failed_with.files
       /\ main_pc = "done"
  /\ configuration # None /\ configuration # null /\ SomeContentFails =>
       exit # [returned |-> 0]

C19_Witness ==
  /\ failed_with # None /\ failed_with.at = "server_handler_types"
  /\ files = <<"common", "types", "validators", "calls">>
  /\ "rejected" \in DOMAIN exit

----------------------------------------------------------------------------
(***************************************************************************)
(* Symbol names: sfc32 and get_gensym.  The generator computes with 32-bit *)
(* integers; a word is kept as its two 16-bit halves, so that no sum or    *)
(* product of the model leaves the integers TLC can hold.  The operators   *)
(* |0 and >>>0 change how a word is read, not its bits, and the only       *)
(* shifts to the right are the unsigned ones.                              *)
(***************************************************************************)
MaxCalls == 3

Half == 2^16

Word(hi, lo) == [hi |-> hi, lo |-> lo]

\* x >>> 0, for a number that is an integer
ToUint32(x) == Word((x \div Half) % Half, x % Half)

\* x + y | 0
add(x, y) ==
  Word((x.hi + y.hi + ((x.lo + y.lo) \div Half)) % Half, (x.lo + y.lo) % Half)

RECURSIVE xor_bits(_, _, _)
xor_bits(x, y, n) ==
  IF n = 0 THEN 0
  ELSE (((x % 2) + (y % 2)) % 2) + 2 * xor_bits(x \div 2, y \div 2, n - 1)

\* x ^ y
xor(x, y) == Word(xor_bits(x.hi, y.hi, 16), xor_bits(x.lo, y.lo, 16))

RECURSIVE or_bits(_, _, _)
or_bits(x, y, n) ==
  IF n = 0 THEN 0
  ELSE (IF (x % 2) + (y % 2) > 0 THEN 1 ELSE 0)
         + 2 * or_bits(x \div 2, y \div 2, n - 1)

\* x | y
or(x, y) == Word(or_bits(x.hi, y.hi, 16), or_bits(x.lo, y.lo, 16))

\* x << n, for n below 16
shl(x, n) ==
  Word(((x.hi * 2^n) % Half) + (x.lo \div 2^(16 - n)), (x.lo * 2^n) % Half)

\* x << 21
shl21(x) == shl(Word(x.lo, 0), 5)

\* x >>> n, for n below 16
shr(x, n) ==
  Word(x.hi \div 2^n, (x.lo \div 2^n) + (x.hi % 2^n) * 2^(16 - n))

\* sfc32: the variables a, b, c, d of the closure after a >>>= 0 ...
sfc32(seed) ==
  [a |-> ToUint32(seed[1]), b |-> ToUint32(seed[2]),
   c |-> ToUint32(seed[3]), d |-> ToUint32(seed[4])]

\* const t = (a + b | 0) + d | 0
t_of(g) == add(add(g.a, g.b), g.d)

\* the function sfc32 returns: the variables after a call
sfc32_next(g) ==
  [a |-> xor(g.b, shr(g.b, 9)),
   b |-> add(g.c, shl(g.c, 3)),
   c |-> add(or(shl21(g.c), shr(g.c, 11)), t_of(g)),
   d |-> add(g.d, Word(0, 1))]

\* return (t >>> 0) / 4294967296: the number, kept as its numerator
sfc32_value(g) == t_of(g)

\* a generator whose variables are those of the first generator made
closure_of_first(i) == random["random1"]

\* the variables of the closure that generator i is
closure(i) == random[i]

\* Math.floor(random() * 2 ** 48): the numerator times 2^16, which is exact;
\* its digits in base 65536, the first the highest
floor_2_48(value) == <<value.hi, value.lo, 0>>

RECURSIVE div10(_, _, _)
div10(limbs, rem, quotient) ==
  IF limbs = <<>> THEN [quotient |-> quotient, rem |-> rem]
  ELSE div10(Tail(limbs), (rem * Half + Head(limbs)) % 10,
             Append(quotient, (rem * Half + Head(limbs)) \div 10))

Digit(n) == <<"0", "1", "2", "3", "4", "5", "6", "7", "8", "9">>[n + 1]

\* Number.prototype.toString of a non-negative integer
RECURSIVE toString(_, _)
toString(limbs, acc) ==
  IF \A k \in DOMAIN limbs : limbs[k] = 0
  THEN IF acc = <<>> THEN <<"0">> ELSE acc
  ELSE toString(div10(limbs, 0, <<>>).quotient,
                <<Digit(div10(limbs, 0, <<>>).rem)>> \o acc)

\* get_gensym: `_${hint ? hint + '_' : ''}${num}`
gensym(hint, value) ==
  <<"_">> \o (IF hint # "" THEN <<hint, "_">> ELSE <<>>)
          \o toString(floor_2_48(value), <<>>)

\* the seeds: the one of the unit test, the default of the configuration,
\* two with numbers that >>> 0 wraps, and one with b = c = 0
Seeds ==
  {<<1, 2, 3, 4>>, <<0, 0, 0, 0>>, <<-1, 2147483647, 65536, 7>>,
   <<2147483647, -2147483647, 123456789, -5>>, <<1, 0, 0, 0>>}

Hints == {"", "req"}

Testers == {"random1", "random2"}

Runs == {"run1", "run2"}

InitGensym ==
  /\ document = None
  /\ IdleProgram /\ IdlePath /\ IdleParameter /\ IdleRouter /\ IdleMain
  /\ IdleMore
  /\ gensym_seed \in {[seed |-> s] : s \in Seeds}
  /\ hints \in {[list |-> l] : l \in [1..MaxCalls -> Hints]}
  /\ random = [i \in Testers \cup Runs |-> sfc32(gensym_seed.seed)]
  /\ numbers = [i \in Testers \cup Runs |-> <<>>]
  /\ names = [i \in Runs |-> <<>>]

\* random1() or random2() of the unit test
Random(i) ==
  /\ random # None /\ Len(numbers[i]) < MaxCalls
  /\ numbers' = [numbers EXCEPT ![i] = Append(@, sfc32_value(closure(i)))]
  /\ random' = [random EXCEPT ![i] = sfc32_next(closure(i))]
  /\ UNCHANGED <<document, programVars, pathVars, parameterVars, routerVars,
                 mainVars, moreVars, gensym_seed, hints, names>>

\* the next gensym(hint) of a run
Gensym(i) ==
  /\ random # None /\ Len(names[i]) < Len(hints.list)
  /\ numbers' = [numbers EXCEPT ![i] = Append(@, sfc32_value(closure(i)))]
  /\ names' = [names EXCEPT ![i] =
                 Append(@, gensym(hints.list[Len(names[i]) + 1],
                                  sfc32_value(closure(i))))]
  /\ random' = [random EXCEPT ![i] = sfc32_next(closure(i))]
  /\ UNCHANGED <<document, programVars, pathVars, parameterVars, routerVars,
                 mainVars, moreVars, gensym_seed, hints>>

NextGensym ==
  \/ \E i \in Testers : Random(i)
  \/ \E i \in Runs : Gensym(i)

SpecGensym == InitGensym /\ [][NextGensym]_vars

\* two sequences agree as far as both go
Agree(s, t) ==
  \A n \in 1..Len(s) : n <= Len(t) => s[n] = t[n]

C21_NoNameTwice ==
  random # None =>
    \A i \in Runs : \A m, n \in 1..Len(names[i]) :
      m # n => names[i][m] # names[i][n]

----------------------------------------------------------------------------
(***************************************************************************)
(* Optional imports.  main hands a CountedSymbol for each optional module  *)
(* to the generators of a file, and after the content is built imports     *)
(* the modules whose symbol has a count above 0.  The count goes up each   *)
(* time the symbol is turned into a string, which is each time a template  *)
(* holds it, whatever becomes of the string.                               *)
(***************************************************************************)
CountedSymbol(symbol) == [symbol |-> symbol, count |-> 0]

\* toString() { this.#count ++; return this.#symbol }, n times
RECURSIVE interpolated(_, _)
interpolated(counted, n) ==
  IF n = 0 THEN counted
  ELSE interpolated([counted EXCEPT !.count = @ + 1], n - 1)

\* request_body_to_serializer_input_type: `${args.types_symbol}.` is built
\* for the call of schema_to_typescript whenever there is a schema
input_type_interpolations(content_info) ==
  IF "schema" \in DOMAIN content_info THEN 1 ELSE 0

RECURSIVE sum(_)
sum(list) == IF list = <<>> THEN 0 ELSE Head(list) + sum(Tail(list))

\* unpack_parameter_expression: `${args.generator_common_symbol}` in the
\* check of enum (twice: the throw and Unlist), of const, and of validator
unpack_interpolations(s) ==
  IF "type" \notin DOMAIN s THEN 0
  ELSE Len(common_validators(s, "")) + (IF "enum" \in DOMAIN s THEN 1 ELSE 0)
       + (IF s.type = "string" THEN Len(string_validators(s, ""))
          ELSE Len(number_validators(s, "")))

\* the content of the calls file that comes from the request body of an
\* operation, and the symbols after it
calls_of(an_operation, doc) ==
  [code |-> handle_request_body(an_operation.requestBody.content,
                                an_operation.requestBody.required,
                                Var("body"), DEFAULT_STRING_FORMATS, doc),
   symbols |->
     [types |-> interpolated(CountedSymbol("types"),
                  sum([i \in DOMAIN an_operation.requestBody.content |->
                         input_type_interpolations(
                           an_operation.requestBody.content[i][2])])),
      generator_common |-> CountedSymbol("generator_common")]]

\* the content of the server router file that comes from the parameters
\* and the request body of an operation, and the symbols after it
server_router_of(an_operation, doc) ==
  [code |->
     [parameters |->
        [i \in DOMAIN an_operation.parameters |->
           unpack_parameter_expression(Var("parameter"),
             an_operation.parameters[i], DEFAULT_STRING_FORMATS, doc)],
      body |-> handle_request_body_payload(an_operation.requestBody,
                                           DEFAULT_STRING_FORMATS, doc)],
   symbols |->
     [generator_common |->
        interpolated(CountedSymbol("generator_common"),
          sum([i \in DOMAIN an_operation.parameters |->
                 unpack_interpolations(
                   resolve(an_operation.parameters[i].schema, doc).value)])),
      types |-> CountedSymbol("types"),
      qs |-> CountedSymbol("qs")]]

\* ...(symbol.count > 0 ? [import_star({as: String(symbol), ...})] : [])
optional_imports(counted) == {m \in DOMAIN counted : counted[m].count > 0}

ImportMedia == {<<>>, [schema |-> [type |-> "string"]], [schema |-> Ref("Entry")]}

ImportContentTypes ==
  {<<"text", "plain">>, <<"application", "json">>,
   <<"application", "x-www-form-urlencoded">>}

ImportContents ==
  {<< <<t, m>> >> : t \in ImportContentTypes, m \in ImportMedia}
  \cup {c \in {<< <<t, m>>, <<u, n>> >> :
                   t \in ImportContentTypes, m \in ImportMedia,
                   u \in ImportContentTypes, n \in ImportMedia} :
          c[1][1] # c[2][1]}

ImportParameters ==
  {<<>>,
   <<[name |-> "limit", in |-> "query", schema |-> [type |-> "integer"]]>>,
   <<[name |-> "limit", in |-> "query",
      schema |-> [type |-> "integer", maximum |-> 10]]>>,
   <<[name |-> "kind", in |-> "query",
      schema |-> [type |-> "string", enum |-> {[str |-> <<"a">>]}]]>>}

InitImport ==
  /\ document = DocFlat
  /\ IdleProgram /\ IdlePath /\ IdleParameter /\ IdleLate /\ IdleAfterImport
  /\ import_input \in
       {[parameters |-> ps, requestBody |-> [required |-> r, content |-> c]] :
          ps \in ImportParameters, r \in BOOLEAN, c \in ImportContents}
  /\ symbols = None /\ file_content = None /\ imports = None

BuildCalls ==
  /\ import_input # None /\ file_content = None
  /\ file_content' = [file |-> "calls",
                      code |-> calls_of(import_input, document).code]
  /\ symbols' = calls_of(import_input, document).symbols
  /\ imports' = [modules |->
                   optional_imports(calls_of(import_input, document).symbols)]
  /\ UNCHANGED <<document, programVars, pathVars, parameterVars, lateVars,
                 import_input, afterImport>>

BuildServerRouter ==
  /\ import_input # None /\ file_content = None
  /\ file_content' = [file |-> "server_router",
                      code |-> server_router_of(import_input, document).code]
  /\ symbols' = server_router_of(import_input, document).symbols
  /\ imports' = [modules |->
                   optional_imports(
                     server_router_of(import_input, document).symbols)]
  /\ UNCHANGED <<document, programVars, pathVars, parameterVars, lateVars,
                 import_input, afterImport>>

NextImport ==
  \/ BuildCalls
  \/ BuildServerRouter

SpecImport == InitImport /\ [][NextImport]_vars

\* a type names a type of the types module
RECURSIVE NamesType(_)
NamesType(type) ==
  CASE type.t = "name" -> TRUE
    [] type.t \in {"&", "|"} -> \E i \in DOMAIN type.parts : NamesType(type.parts[i])
    [] type.t = "[]" -> NamesType(type.of)
    [] type.t = "object" ->
         \E f \in DOMAIN type.fields : NamesType(type.fields[f].type)
    [] OTHER -> FALSE

\* the code decodes a body with qs.parse
DecodesWithQs(code) ==
  /\ "body" \in DOMAIN code /\ "op" \in DOMAIN code.body
  /\ \/ code.body.op = "qs.parse"
     \/ code.body.op = "iife" /\ code.body.of.op = "qs.parse"

ContentFailed ==
  IF file_content.file = "calls" THEN IsThrow(file_content.code)
  ELSE \/ IsThrow(file_content.code.body)
       \/ \E i \in DOMAIN file_content.code.parameters :
            IsThrow(file_content.code.parameters[i])

\* the content of the file refers to the module
Refers(module) ==
  IF file_content.file = "calls"
  THEN /\ module = "types"
       /\ \E i \in DOMAIN file_content.code.of :
            NamesType(file_content.code.of[i].type)
  ELSE CASE module = "qs" ->
              \E i \in DOMAIN file_content.code.body.of :
                DecodesWithQs(file_content.code.body.of[i].then)
         [] module = "generator_common" ->
              \E i \in DOMAIN file_content.code.parameters :
                file_content.code.parameters[i].validators # <<>>
         [] OTHER -> FALSE

\* C22: an optional module is imported exactly when the content of the
\* file refers to it.
C22_ImportedWhenReferred ==
  file_content # None /\ ~ContentFailed =>
    \A module \in DOMAIN symbols :
      module \in imports.modules <=> Refers(module)

----------------------------------------------------------------------------
(* The command line: parse_command_line *)

MaxArgs == 4

\* the arguments a command line is made of
Arguments ==
  {"--conf-format", "yaml", "--config", "/a.yaml", "/b.txt", "--input",
   "--no-prettier", "--output-types", "--include-source-locations", "raw"}

CommandLines == UNION {[1..n -> Arguments] : n \in 0..MaxArgs}

\* the configuration files there are, parsed; their paths are absolute, which
\* resolve_path leaves as they are
ConfigurationFiles ==
  [f \in {"/a.yaml", "/b.txt"} |->
     IF f = "/a.yaml"
     THEN [k \in {"input", "prettify", "output"} |->
             CASE k = "input" -> "/in_a"
               [] k = "prettify" -> "true"
               [] k = "output" -> [o \in {"calls"} |-> "/calls_a"]]
     ELSE [k \in {"include-source-locations"} |-> "raw"]]

\* path.extname
extname(filename) ==
  CASE filename = "/a.yaml" -> ".yaml"
    [] filename = "/b.txt" -> ".txt"
    [] OTHER -> ""

\* await load_configuration_file(base_filename, format): the content of the
\* file, {} for an extension that is not known, a rejection for a file that
\* cannot be read
load_configuration_file(base_filename, format) ==
  IF base_filename = "undefined" /\ format = "undefined"
  THEN Throw("TypeError")
  ELSE LET format_ == IF format # "undefined" THEN format
                      ELSE extname(base_filename)
       IN  IF format_ \notin {".json", ".yaml", ".yml"}
           THEN << >>
           ELSE IF base_filename \notin DOMAIN ConfigurationFiles
           THEN Throw("ENOENT")
           ELSE ConfigurationFiles[base_filename]

\* { ...a, ...b }
object_spread(a, b) ==
  [k \in DOMAIN a \cup DOMAIN b |-> IF k \in DOMAIN b THEN b[k] ELSE a[k]]

\* a with a[key] = value
assign(a, key, value) == object_spread(a, [k \in {key} |-> value])

\* process.argv[j]
Argv(j) == IF j \in DOMAIN argv.list THEN argv.list[j] ELSE "undefined"

\* the options of the program
Options ==
  {"input", "prettify", "include-source-locations", "output.types",
   "output.calls"}

\* the value an option has in a configuration or in a configuration file
option_value(conf, option) ==
  CASE option = "output.types" ->
         IF "output" \in DOMAIN conf /\ "types" \in DOMAIN conf["output"]
         THEN conf["output"]["types"] ELSE "undefined"
    [] option = "output.calls" ->
         IF "output" \in DOMAIN conf /\ "calls" \in DOMAIN conf["output"]
         THEN conf["output"]["calls"] ELSE "undefined"
    [] OTHER -> IF option \in DOMAIN conf THEN conf[option] ELSE "undefined"

InitCommandLine ==
  /\ document = None
  /\ IdleProgram /\ IdlePath /\ IdleParameter /\ IdleLate /\ IdleImport
  /\ IdleAfterCommand
  /\ argv \in {[list |-> l] : l \in CommandLines}
  /\ argv_i = 1
  /\ file_format = "undefined"
  /\ cli_configuration = [k \in {"output"} |-> << >>]
  /\ sourced_files = << >>
  /\ last_writer = [o \in Options |-> "undefined"]
  /\ cli_result = None

commandUnchanged ==
  <<document, programVars, pathVars, parameterVars, lateVars, importVars,
    afterCommand, argv>>

InLoop == argv # None /\ cli_result = None /\ argv_i <= Len(argv.list)

\* case '--conf-format'
ConfFormat ==
  /\ InLoop /\ Argv(argv_i) = "--conf-format"
  /\ file_format' = IF Argv(argv_i + 1) \in {"yaml", "json"}
                    THEN IF Argv(argv_i + 1) = "yaml" THEN ".yaml" ELSE ".json"
                    ELSE file_format
  /\ argv_i' = argv_i + 2
  /\ UNCHANGED <<commandUnchanged, cli_configuration, sourced_files,
                 last_writer, cli_result>>

\* case '--config'
Config ==
  /\ InLoop /\ Argv(argv_i) = "--config"
  /\ LET filename == Argv(argv_i + 1)
         loaded == load_configuration_file(filename, file_format)
     IN  IF IsThrow(loaded)
         THEN /\ cli_result' = loaded
              /\ UNCHANGED <<cli_configuration, sourced_files, file_format,
                             last_writer>>
         ELSE /\ cli_configuration' = object_spread(cli_configuration, loaded)
              /\ sourced_files' = Append(sourced_files, filename)
              /\ file_format' = "undefined"
              /\ last_writer' =
                   [o \in Options |->
                      IF option_value(loaded, o) # "undefined"
                      THEN option_value(loaded, o) ELSE last_writer[o]]
              /\ UNCHANGED cli_result
  /\ argv_i' = argv_i + 2
  /\ UNCHANGED commandUnchanged

\* case '--input'
Input ==
  /\ InLoop /\ Argv(argv_i) = "--input"
  /\ cli_configuration' = assign(cli_configuration, "input", Argv(argv_i + 1))
  /\ last_writer' = [last_writer EXCEPT !["input"] = Argv(argv_i + 1)]
  /\ argv_i' = argv_i + 2
  /\ UNCHANGED <<commandUnchanged, file_format, sourced_files, cli_result>>

\* case '--no-prettier'
NoPrettier ==
  /\ InLoop /\ Argv(argv_i) = "--no-prettier"
  /\ cli_configuration' = assign(cli_configuration, "prettify", "false")
  /\ last_writer' = [last_writer EXCEPT !["prettify"] = "false"]
  /\ argv_i' = argv_i + 1
  /\ UNCHANGED <<commandUnchanged, file_format, sourced_files, cli_result>>

\* case '--include-source-locations'
IncludeSourceLocations ==
  /\ InLoop /\ Argv(argv_i) = "--include-source-locations"
  /\ LET value == IF Argv(argv_i + 1) = "raw" THEN "raw" ELSE "mapped"
     IN  /\ cli_configuration' =
               assign(cli_configuration, "include-source-locations", value)
         /\ last_writer' =
               [last_writer EXCEPT !["include-source-locations"] = value]
  /\ argv_i' = IF Argv(argv_i + 1) = "raw" THEN argv_i + 2 ELSE argv_i + 1
  /\ UNCHANGED <<commandUnchanged, file_format, sourced_files, cli_result>>

\* default, an --output-<part> flag
Output ==
  /\ InLoop /\ Argv(argv_i) = "--output-types"
  /\ cli_configuration' =
       assign(cli_configuration, "output",
              assign(cli_configuration["output"], "types", Argv(argv_i + 1)))
  /\ last_writer' = [last_writer EXCEPT !["output.types"] = Argv(argv_i + 1)]
  /\ argv_i' = argv_i + 2
  /\ UNCHANGED <<commandUnchanged, file_format, sourced_files, cli_result>>

\* default, any other argument: a warning
UnknownFlag ==
  /\ InLoop
  /\ Argv(argv_i) \notin {"--conf-format", "--config", "--input",
                          "--no-prettier", "--include-source-locations",
                          "--output-types"}
  /\ argv_i' = argv_i + 1
  /\ UNCHANGED <<commandUnchanged, file_format, cli_configuration,
                 sourced_files, last_writer, cli_result>>

\* after the loop: the configuration when it has what is required, else null
Validate ==
  /\ argv # None /\ cli_result = None /\ argv_i > Len(argv.list)
  /\ cli_result' =
       IF option_value(cli_configuration, "input") # "undefined"
          /\ "output" \in DOMAIN cli_configuration
       THEN [configuration |-> cli_configuration]
       ELSE [configuration |-> "null"]
  /\ UNCHANGED <<commandUnchanged, argv_i, file_format, cli_configuration,
                 sourced_files, last_writer>>

NextCommandLine ==
  \/ ConfFormat
  \/ Config
  \/ Input
  \/ NoPrettier
  \/ IncludeSourceLocations
  \/ Output
  \/ UnknownFlag
  \/ Validate

SpecCommandLine == InitCommandLine /\ [][NextCommandLine]_vars

\* the loop has gone through all the arguments
Processed == argv # None /\ argv_i > Len(argv.list) /\ ~IsThrow(cli_result)

----------------------------------------------------------------------------
(* String literals: ts_string *)

MaxString == 4

\* the characters of the strings that are tried
StringCharacters == {"a", "\\", "\"", "'", backtick, "$", "{"}

StringsUpTo(n) == UNION {[1..k -> StringCharacters] : k \in 0..n}

Delimiters == {"\"", "'", backtick}

InitString ==
  /\ document = None
  /\ IdleProgram /\ IdlePath /\ IdleParameter /\ IdleLate /\ IdleImport
  /\ IdleCommand /\ IdleAfterString
  /\ ts_s \in {[chars |-> str] : str \in StringsUpTo(MaxString)}
  /\ ts_delim \in Delimiters
  /\ ts_literal = None

\* ts_string(s, delim)
TsString ==
  /\ ts_s # None /\ ts_literal = None
  /\ ts_literal' = [chars |-> ts_string(ts_s.chars, ts_delim)]
  /\ UNCHANGED <<document, programVars, pathVars, parameterVars, lateVars,
                 importVars, commandVars, afterString, ts_s, ts_delim>>

NextString == TsString

SpecString == InitString /\ [][NextString]_vars

\* the character of s at i gets a backslash
NeedsBackslash(i) == ts_s.chars[i] = ts_delim \/ ts_s.chars[i] = "\\"

\* the place in the literal of the character of s at i: after the opening
\* delimiter, the characters before it and the backslashes up to it
PlaceOf(i) ==
  1 + i + Cardinality({j \in 1..i : NeedsBackslash(j)})

\* C24: the literal is s between two delimiters, with a backslash before
\* every delimiter and every backslash of s and nothing else changed; in
\* particular a dollar sign and its brace stay next to each other, without
\* a backslash, in a template literal.
C24_LiteralIsEscaped ==
  ts_literal # None =>
    LET s == ts_s.chars
        out == ts_literal.chars
    IN  /\ Len(out) = 2 + Len(s)
                        + Cardinality({j \in 1..Len(s) : NeedsBackslash(j)})
        /\ out[1] = ts_delim /\ out[Len(out)] = ts_delim
        /\ \A i \in 1..Len(s) :
             /\ out[PlaceOf(i)] = s[i]
             /\ NeedsBackslash(i) => out[PlaceOf(i) - 1] = "\\"
        /\ ts_delim = backtick =>
             \A i \in 1..(Len(s) - 1) :
               s[i] = "$" /\ s[i + 1] = "{" =>
                 /\ out[PlaceOf(i)] = "$" /\ out[PlaceOf(i) + 1] = "{"
                 /\ out[PlaceOf(i) - 1] = "\\" =>
                      i > 1 /\ s[i - 1] = "\\"

\* a string with a backslash, a backtick and an interpolation has been
\* made a template literal
C24_Witness ==
  /\ ts_literal # None /\ ts_delim = backtick
  /\ ts_s.chars = <<"\\", backtick, "$", "{">>
  /\ ts_literal.chars =
       <<backtick, "\\", "\\", "\\", backtick, "$", "{", backtick>>

----------------------------------------------------------------------------
(* Object schemas in the parser and the serializer *)

\* the schema is an object schema with properties that the compilers accept
CompiledObject ==
  /\ phase # "loaded"
  /\ DOMAIN schema \subseteq {"type", "properties", "required"}
  /\ "type" \in DOMAIN schema /\ schema.type = "object"
  /\ "properties" \in DOMAIN schema
  /\ ~IsThrow(parser) /\ ~IsThrow(serializer)

\* what the compiler makes of the property key read from x
PropertyCode(key, mode) ==
  inner(schema.properties[key], Index(body, key), document,
        DEFAULT_STRING_FORMATS, mode, 2)

\* the properties that need a transformation: the compiler has code for them
NeedTransformation(mode) ==
  {key \in DOMAIN schema.properties : PropertyCode(key, mode) # False}

RequiredOf(s) == IF "required" \in DOMAIN s THEN s.required ELSE {}

\* the code is x, or a spread of x that overrides the properties needing a
\* transformation, the optional ones under the test that x has the key
SpreadsOver(code, mode) ==
  IF NeedTransformation(mode) = {} THEN code = body
  ELSE /\ code.op = "spread" /\ code.of = body
       /\ DOMAIN code.modified = NeedTransformation(mode)
       /\ \A key \in DOMAIN code.modified :
            /\ code.modified[key].value = PropertyCode(key, mode)
            /\ code.modified[key].conditional <=> key \notin RequiredOf(schema)

\* the value made from v has the keys of v, no optional one more, and the
\* properties that need no transformation as they are in v
KeepsTheRest(v, made, mode) ==
  v.k = "object" /\ made.k = "object" =>
    /\ DOMAIN made.fields \ RequiredOf(schema) = DOMAIN v.fields \ RequiredOf(schema)
    /\ DOMAIN v.fields \subseteq DOMAIN made.fields
    /\ \A key \in DOMAIN v.fields \ NeedTransformation(mode) :
         made.fields[key] = v.fields[key]

\* C25: the parser and the serializer of an object schema are a spread copy
\* of x that overrides only the properties needing a transformation, a
\* required one always and an optional one when x has its key; run on a
\* value they create no optional property and keep the other properties.
C25_SpreadOverridesOnlyTransformed ==
  CompiledObject =>
    /\ SpreadsOver(parser, "parser") /\ SpreadsOver(serializer, "serializer")
    /\ phase \in {"received", "sent"} => KeepsTheRest(wire, parsed, "parser")
    /\ phase = "sent" => KeepsTheRest(parsed, emitted, "serializer")

\* a value without the optional, transformed property `at` and with the
\* required, transformed one has been parsed and serialized
C25_Witness ==
  /\ CompiledObject /\ phase = "sent"
  /\ schema = document.components.schemas.Entry /\ document = DocFlat
  /\ NeedTransformation("parser") = {"id", "at"}
  /\ parser.modified.at.conditional /\ ~parser.modified.id.conditional
  /\ DOMAIN wire.fields = {"id"} /\ DOMAIN parsed.fields = {"id"}
  /\ DOMAIN emitted.fields = {"id"}

----------------------------------------------------------------------------
(* The parts of an allOf: merge_schemas *)

MaxParts == 3

\* the declarations a part has for the properties a and b
PartProperties ==
  {<<>>} \cup {[a |-> [type |-> t]] : t \in {"number", "string"}}
         \cup {[b |-> [type |-> "string"]]}
         \cup {[a |-> [type |-> t], b |-> [type |-> "string"]] :
                 t \in {"number", "string"}}

\* object schemas, with and without `properties` and `required`
Parts ==
  {[type |-> "object"]
     @@ (IF p # <<>> THEN [properties |-> p] ELSE <<>>)
     @@ (IF r # {} THEN [required |-> r] ELSE <<>>) :
     p \in PartProperties, r \in {{}, {"a"}, {"b"}}}

InitMerge ==
  /\ document = None
  /\ IdleProgram /\ IdlePath /\ IdleParameter /\ IdleLate /\ IdleImport
  /\ IdleCommand /\ IdleString /\ IdleAfterMerge
  /\ merge_parts \in
       {[schemas |-> l] : l \in UNION {[1..n -> Parts] : n \in 0..MaxParts}}
  /\ merged = None

\* merge_schemas(schemas)
MergeSchemas ==
  /\ merge_parts # None /\ merged = None
  /\ merged' = merge_schemas(merge_parts.schemas)
  /\ UNCHANGED <<document, programVars, pathVars, parameterVars, lateVars,
                 importVars, commandVars, stringVars, afterMerge, merge_parts>>

NextMerge == MergeSchemas

SpecMerge == InitMerge /\ [][NextMerge]_vars

PropertiesOf(s) == IF "properties" \in DOMAIN s THEN s.properties ELSE <<>>

\* the places in the list of the parts that declare the property
Declaring(name) ==
  {i \in DOMAIN merge_parts.schemas :
     name \in DOMAIN PropertiesOf(merge_parts.schemas[i])}

\* C26: merge_schemas returns one object schema; its properties are those
\* of all the parts, each as the last part that declares it declares it,
\* and its required set is the union of the required sets of the parts.
C26_MergeIsUnion ==
  merged # None =>
    LET parts == merge_parts.schemas
    IN  /\ merged.type = "object"
        /\ DOMAIN PropertiesOf(merged) =
             UNION {DOMAIN PropertiesOf(parts[i]) : i \in DOMAIN parts}
        /\ \A name \in DOMAIN PropertiesOf(merged) :
             \E i \in Declaring(name) :
               /\ \A j \in Declaring(name) : j <= i
               /\ PropertiesOf(merged)[name] = PropertiesOf(parts[i])[name]
        /\ RequiredOf(merged) =
             UNION {RequiredOf(parts[i]) : i \in DOMAIN parts}

\* two parts declare `a` differently, a third one in between requires `b`
C26_Witness ==
  /\ merged # None /\ Len(merge_parts.schemas) = 3
  /\ PropertiesOf(merge_parts.schemas[1]) = [a |-> [type |-> "number"]]
  /\ RequiredOf(merge_parts.schemas[1]) = {"a"}
  /\ RequiredOf(merge_parts.schemas[2]) = {"b"}
  /\ PropertiesOf(merge_parts.schemas[3]) =
       [a |-> [type |-> "string"], b |-> [type |-> "string"]]
  /\ merged.properties.a.type = "string" /\ merged.required = {"a", "b"}

----------------------------------------------------------------------------
(* The source map of a file: find_source_map_url *)

MaxData == 5

\* the iterations of the loop that the history counts
MaxIterations == 8

\* The characters of a file: the line feed, the space, a character that is
\* neither, and "M" for the text `# sourceMappingURL=`.
DataCharacters == {"\n", " ", "x", "M"}

Data == UNION {[1..n -> DataCharacters] : n \in 0..MaxData}

\* data.split('\n')
RECURSIVE split_lines(_, _)
split_lines(data, line) ==
  IF data = <<>> THEN <<line>>
  ELSE IF Head(data) = "\n" THEN <<line>> \o split_lines(Tail(data), <<>>)
  ELSE split_lines(Tail(data), Append(line, Head(data)))

\* line.trim() === ''
trims_to_empty(line) == \A i \in DOMAIN line : line[i] = " "

\* \S+ at the head of the text: the characters up to the first space; the
\* text `# sourceMappingURL=` has a space after its first character
RECURSIVE non_space_run(_)
non_space_run(text) ==
  IF text = <<>> \/ Head(text) = " " THEN <<>>
  ELSE IF Head(text) = "M" THEN <<"#">>
  ELSE <<Head(text)>> \o non_space_run(Tail(text))

\* line.match(/# sourceMappingURL=(\S+)/): m[1], null without a match
match_source_mapping_url(line) ==
  LET starts == {i \in DOMAIN line :
                   line[i] = "M" /\ i < Len(line) /\ line[i + 1] # " "}
  IN  IF starts = {} THEN [null |-> TRUE]
      ELSE LET i == CHOOSE i \in starts : \A j \in starts : i <= j
           IN  [null |-> FALSE,
                url |-> non_space_run(SubSeq(line, i + 1, Len(line)))]

\* lines.at(offset) for a negative offset
at(lines, offset) ==
  IF Len(lines) + offset + 1 \in DOMAIN lines
  THEN [undefined |-> FALSE, line |-> lines[Len(lines) + offset + 1]]
  ELSE [undefined |-> TRUE]

InitSourceMap ==
  /\ document = None
  /\ IdleProgram /\ IdlePath /\ IdleParameter /\ IdleLate /\ IdleImport
  /\ IdleCommand /\ IdleString /\ IdleMerge /\ IdleAfterSourceMap
  /\ map_data \in {[chars |-> d] : d \in Data}
  /\ map_lines = None /\ line_offset = None /\ map_url = None
  /\ map_iterations = 0

sourceMapUnchanged ==
  <<document, programVars, pathVars, parameterVars, lateVars, importVars,
    commandVars, stringVars, mergeVars, afterSourceMap, map_data>>

\* const lines = data.split('\n'); let line_offset = -1
SplitData ==
  /\ map_data # None /\ map_lines = None
  /\ map_lines' = [lines |-> split_lines(map_data.chars, <<>>)]
  /\ line_offset' = -1
  /\ UNCHANGED <<sourceMapUnchanged, map_iterations, map_url>>

\* the loop is at its test
InWhile == map_data # None /\ map_lines # None /\ map_url = None

Line == at(map_lines.lines, line_offset).line

\* !line: there is no such line, or it is the empty string
NoLine ==
  IF at(map_lines.lines, line_offset).undefined THEN TRUE ELSE Line = <<>>

Counted ==
  IF map_iterations < MaxIterations THEN map_iterations + 1 ELSE map_iterations

\* if (!line) break; return null
BreakLoop ==
  /\ InWhile /\ NoLine
  /\ map_url' = [null |-> TRUE]
  /\ map_iterations' = Counted
  /\ UNCHANGED <<sourceMapUnchanged, map_lines, line_offset>>

\* if (line.trim() === '') { line_offset--; continue }
SkipLine ==
  /\ InWhile /\ ~NoLine /\ trims_to_empty(Line)
  /\ line_offset' = line_offset - 1
  /\ map_iterations' = Counted
  /\ UNCHANGED <<sourceMapUnchanged, map_lines, map_url>>

\* if (m) return m[1]
ReturnMatch ==
  /\ InWhile /\ ~NoLine /\ ~trims_to_empty(Line)
  /\ ~match_source_mapping_url(Line).null
  /\ map_url' = match_source_mapping_url(Line)
  /\ map_iterations' = Counted
  /\ UNCHANGED <<sourceMapUnchanged, map_lines, line_offset>>

\* no match: the end of the body of while (true), nothing has changed
NextIteration ==
  /\ InWhile /\ ~NoLine /\ ~trims_to_empty(Line)
  /\ match_source_mapping_url(Line).null
  /\ map_iterations' = Counted
  /\ UNCHANGED <<sourceMapUnchanged, map_lines, line_offset, map_url>>

NextSourceMap ==
  \/ SplitData
  \/ BreakLoop
  \/ SkipLine
  \/ ReturnMatch
  \/ NextIteration

SpecSourceMap == InitSourceMap /\ [][NextSourceMap]_vars

\* the function runs on: no step that it can take is put off for ever
FairSourceMap == SpecSourceMap /\ WF_vars(NextSourceMap)

\* the lines of the file that are not empty
NonEmptyLines ==
  {i \in DOMAIN split_lines(map_data.chars, <<>>) :
     ~trims_to_empty(split_lines(map_data.chars, <<>>)[i])}

\* the URL of the comment on the last non-empty line, null without one
ExpectedUrl ==
  IF NonEmptyLines = {} THEN [null |-> TRUE]
  ELSE LET last == CHOOSE i \in NonEmptyLines : \A j \in NonEmptyLines : j <= i
       IN  match_source_mapping_url(split_lines(map_data.chars, <<>>)[last])

\* C27: for every content find_source_map_url comes to an end, and what it
\* returns is the URL of the sourceMappingURL comment on the last non-empty
\* line, null when that line has none.
C27_TerminatesWithTheUrl ==
  /\ <>(map_url # None)
  /\ [](map_url # None => map_url = ExpectedUrl)

----------------------------------------------------------------------------
(* The compilers on the same schema *)

\* C28: a schema that schema_to_typescript returns a type for is accepted
\* by schema_to_parser and by schema_to_serializer as well: they return an
\* expression and do not fail.
C28_TypedSchemasCompile ==
  phase # "loaded" /\ ~IsThrow(ts_type) =>
    ~IsThrow(parser) /\ ~IsThrow(serializer)

----------------------------------------------------------------------------
(* The names of the declared types *)

\* typename(name, schema)
typename(name, s) ==
  to_ts_identifier(IF "title" \in DOMAIN s THEN s.title ELSE name)

\* the name in `export type ${typename(name, schema)} = ` of
\* format_schema(name, resolve(schema, document), ...)
declared_name(name, doc) ==
  LET r == resolve(schemas_of(doc)[name], doc)
  IN  IF r.ok THEN [t |-> "name", name |-> typename(name, r.value)]
      ELSE Throw(r.error)

EntryNames == {"Entry", "entry-id", "Alias"}

\* what an entry is: a schema without or with a title, or a reference to
\* an entry
EntrySchemas ==
  {[type |-> "string"],
   [type |-> "string", title |-> "Titled"],
   [type |-> "object", title |-> "entry-id"]}
  \cup {Ref(name) : name \in EntryNames}

\* the documents whose entries do not refer to themselves
NameDocuments ==
  {[openapi |-> "3.0.0", components |-> [schemas |-> entries]] :
     entries \in {e \in [EntryNames -> EntrySchemas] :
                    \A name \in EntryNames : e[name] # Ref(name)}}

InitName ==
  /\ document \in NameDocuments
  /\ IdleProgram /\ IdlePath /\ IdleParameter /\ IdleLate /\ IdleImport
  /\ IdleCommand /\ IdleString /\ IdleMerge /\ IdleSourceMap /\ IdleAfterName
  /\ declared_names = None /\ referred_name = None

\* main, the types file: one declaration for each entry
DeclareTypes ==
  /\ document # None /\ declared_names = None
  /\ declared_names' =
       [name \in DOMAIN schemas_of(document) |-> declared_name(name, document)]
  /\ UNCHANGED <<document, programVars, pathVars, parameterVars, lateVars,
                 importVars, commandVars, stringVars, mergeVars, sourceMapVars,
                 afterName, referred_name>>

\* schema_to_typescript on a reference to an entry
ReferTo ==
  /\ document # None /\ referred_name = None
  /\ \E name \in DOMAIN schemas_of(document) :
       referred_name' =
         [to |-> name,
          type |-> schema_to_typescript(Ref(name), DEFAULT_STRING_FORMATS,
                                        document, 1)]
  /\ UNCHANGED <<document, programVars, pathVars, parameterVars, lateVars,
                 importVars, commandVars, stringVars, mergeVars, sourceMapVars,
                 afterName, declared_names>>

NextName ==
  \/ DeclareTypes
  \/ ReferTo

SpecName == InitName /\ [][NextName]_vars

\* C29: the name that a reference to an entry of components.schemas
\* compiles to is the name under which the entry's type is declared, also
\* for an entry with a title and for an entry that is a reference to
\* another entry.
C29_ReferenceNamesTheDeclaration ==
  declared_names # None /\ referred_name # None =>
    referred_name.type = declared_names[referred_name.to]

----------------------------------------------------------------------------
(* A generated endpoint handler serving a request.  The statements are     *)
(* those that format_operation_as_server_endpoint_handler and              *)
(* handle_request_body_payload write, in their order; what the request     *)
(* holds is chosen when the handler reads it.                              *)

MaxParameters == 2

EndpointParameters ==
  UNION {[1..n -> [in : {"query", "path"}, required : BOOLEAN]] :
           n \in 0..MaxParameters}

\* the content types of a request body, in the order of the document
EndpointContents ==
  LET types == {"text/plain", "application/json", "application/octet-stream"}
  IN  {<<t>> : t \in types}
      \cup {<<t, u>> : t \in {"text/plain"}, u \in types \ {"text/plain"}}

\* operations without and with a requestBody; the generator fails for a
\* body that is not required
Endpoints ==
  {[parameters |-> ps] : ps \in EndpointParameters}
  \cup {[parameters |-> ps, requestBody |-> [required |-> TRUE, content |-> c]] :
          ps \in EndpointParameters, c \in EndpointContents}

Statement(statement, index) == [at |-> statement, index |-> index]

InitEndpoint ==
  /\ document = None
  /\ IdleProgram /\ IdlePath /\ IdleParameter /\ IdleLate /\ IdleImport
  /\ IdleCommand /\ IdleString /\ IdleMerge /\ IdleSourceMap /\ IdleName
  /\ endpoint \in Endpoints
  /\ endpoint_pc = Statement("parameter", 1)
  /\ raw_body = None
  /\ sent = << >>
  /\ called = FALSE

endpointUnchanged ==
  <<document, programVars, pathVars, parameterVars, lateVars, importVars,
    commandVars, stringVars, mergeVars, sourceMapVars, nameVars, endpoint>>

Running(statement) == endpoint # None /\ endpoint_pc.at = statement

\* what comes after the parameters
AfterParameters ==
  IF "requestBody" \in DOMAIN endpoint THEN Statement("raw_body", 0)
  ELSE Statement("callback", 0)

\* res.status(status) ... .send(...); return
SendAndReturn(status) ==
  /\ sent' = Append(sent, status)
  /\ endpoint_pc' = Statement("returned", 0)

\* what the request has for a parameter of the operation
ParameterValues(p) ==
  IF p.in = "query" THEN {"undefined", "string", "array"}
  ELSE {"undefined", "string"}

\* how the unpack expression of a parameter ends
UnpackOutcomes == {"value", "SyntaxError", "APIMalformedError", "Error"}

\* the statements for one parameter, or the end of the parameters
HandleParameter ==
  /\ Running("parameter")
  /\ LET i == endpoint_pc.index
         next == IF i < Len(endpoint.parameters) THEN Statement("parameter", i + 1)
                 ELSE AfterParameters
     IN  IF i > Len(endpoint.parameters)
         THEN endpoint_pc' = AfterParameters /\ UNCHANGED sent
         ELSE \E value \in ParameterValues(endpoint.parameters[i]),
                 outcome \in UnpackOutcomes :
                LET p == endpoint.parameters[i]
                IN  IF p.required /\ value = "undefined"
                    THEN SendAndReturn(400)
                    ELSE IF ~p.required /\ value = "undefined"
                    THEN endpoint_pc' = next /\ UNCHANGED sent
                    ELSE IF p.in = "query" /\ value # "string"
                    THEN SendAndReturn(400)
                    ELSE CASE outcome = "value" ->
                                endpoint_pc' = next /\ UNCHANGED sent
                           [] outcome \in {"SyntaxError", "APIMalformedError"} ->
                                SendAndReturn(400)
                           [] OTHER ->
                                endpoint_pc' = Statement("threw", 0) /\ UNCHANGED sent
  /\ UNCHANGED <<endpointUnchanged, raw_body, called>>

\* const raw_body = req.body; if (raw_body === undefined) { res.status(400)
\* .type('text').send('Body required, but non provided') }
ReadBody ==
  /\ Running("raw_body")
  /\ \E value \in {"undefined", "Buffer", "object"} :
       /\ raw_body' = [value |-> value]
       /\ sent' = IF value = "undefined" THEN Append(sent, 400) ELSE sent
  /\ endpoint_pc' = Statement("buffer", 0)
  /\ UNCHANGED <<endpointUnchanged, called>>

\* if (!(raw_body instanceof Buffer)) { throw new Error(...) }
CheckBuffer ==
  /\ Running("buffer")
  /\ endpoint_pc' = IF raw_body.value = "Buffer" THEN Statement("content", 0)
                    ELSE Statement("threw", 0)
  /\ UNCHANGED <<endpointUnchanged, raw_body, sent, called>>

\* how decoding a body of the content type ends
DecodeOutcomes(content_type) ==
  CASE content_type = "text/plain" -> {"value", "ERR_ENCODING_INVALID_DATA", "Error"}
    [] content_type = "application/json" ->
         {"value", "ERR_ENCODING_INVALID_DATA", "SyntaxError",
          "APIMalformedError", "Error"}
    [] OTHER -> {"value"}

\* if (req.is(...)) { ... } else if (req.is(...)) { ... } else { 415 }
DecodeBody ==
  /\ Running("content")
  /\ \E first \in 0..Len(endpoint.requestBody.content) :
       IF first = 0 THEN SendAndReturn(415)
       ELSE \E outcome \in DecodeOutcomes(endpoint.requestBody.content[first]) :
              CASE outcome = "value" ->
                     endpoint_pc' = Statement("callback", 0) /\ UNCHANGED sent
                [] outcome = "Error" ->
                     endpoint_pc' = Statement("threw", 0) /\ UNCHANGED sent
                [] OTHER -> SendAndReturn(400)
  /\ UNCHANGED <<endpointUnchanged, raw_body, called>>

\* const result = await handler(handler_args as any, req)
CallHandler ==
  /\ Running("callback")
  /\ called' = TRUE
  /\ \E rejects \in BOOLEAN :
       endpoint_pc' = IF rejects THEN Statement("threw", 0) ELSE Statement("respond", 0)
  /\ UNCHANGED <<endpointUnchanged, raw_body, sent>>

\* res.status(result.status); switch (result.status) ... res.send(...)
SendResult ==
  /\ Running("respond")
  /\ \E status \in {200, 404} : SendAndReturn(status)
  /\ UNCHANGED <<endpointUnchanged, raw_body, called>>

NextEndpoint ==
  \/ HandleParameter
  \/ ReadBody
  \/ CheckBuffer
  \/ DecodeBody
  \/ CallHandler
  \/ SendResult

SpecEndpoint == InitEndpoint /\ [][NextEndpoint]_vars

\* an error response has been sent
ErrorSent == \E i \in DOMAIN sent : sent[i] \in {400, 415}

\* C30: once the handler has sent an error response, 400 or 415, it
\* returns: it is the only response, the user's callback is not invoked
\* and the handler does not throw.
C30_ErrorResponseEndsTheHandler ==
  endpoint # None /\ ErrorSent =>
    /\ Len(sent) = 1
    /\ ~called
    /\ endpoint_pc.at # "threw"

====
